---- MODULE Spec2Model ----
(***************************************************************************)
(* Remote directory cache, listing workers and the drag-and-drop upload    *)
(* conflict resolution of src/upload_gui.py (UploaderWindow,               *)
(* RemoteFileSystem, RemoteListWorker, UploadWorker).                      *)
(*                                                                         *)
(* Threads.  The Qt main thread runs the handlers of UploaderWindow.  A    *)
(* handler runs to completion, except where it blocks:                     *)
(*   - handle_drop calls RemoteFileSystem.list_directory synchronously;    *)
(*     worker threads keep running meanwhile, so the cache test, the       *)
(*     remote command and the cache store are separate steps;              *)
(*   - QInputDialog.getText runs a nested event loop: signals queued by    *)
(*     worker threads are delivered to their slots while the dialog is     *)
(*     open (pc = "drop_prompt"); the dialog is modal, so no other user    *)
(*     input reaches the window.                                           *)
(* RemoteListWorker.run and UploadWorker.run execute in their own threads  *)
(* and touch RemoteFileSystem.cache / the remote host directly.            *)
(*                                                                         *)
(* Scope of Spec.  The window at rest after start-up: connected (or the    *)
(* connection failed), the first listing of /home/user shown, and every    *)
(* folder-tree node on the way to the model's paths already loaded, so     *)
(* that sync_folder_selection finds ensure_folder_children returning at    *)
(* its first test and starts no fetch.  Spec follows the window through    *)
(* one drop: its handler, the workers it starts and their signals.  Host   *)
(* switching and the folder tree are not part of Spec.                     *)
(***************************************************************************)
EXTENDS Integers, Sequences, FiniteSets, TLC

(***************************************************************************)
(* Bounds of the model.                                                    *)
(***************************************************************************)
MaxBatch == 2          \* local items in one drop
MaxRefreshes == 1      \* user-initiated refresh_remote_view calls in one run
MaxPrompts == 1        \* prompts repeated in one batch
MaxCalls == 3          \* calls of RemoteFileSystem made in one run of CacheSpec
MaxGestures == 2       \* expand and collapse gestures in one run
MaxConnects == 2       \* RemoteFileSystem objects created in one run
MaxRunning == 1        \* list workers that run at a time in TreeSpec
MaxLines == 2          \* lines of one output of the remote listing command
MaxEdits == 1          \* handle_rename and handle_delete calls in one run of EditSpec
MaxInstances == 2      \* instances in one answer of the vastai command

(***************************************************************************)
(* Inputs.                                                                 *)
(***************************************************************************)
HomePath == "/home/user"                   \* UploaderWindow.__init__: current_remote_path
Paths == {"/home", HomePath}                \* remote directories the operator goes to
Dirs == {"/"} \cup Paths                     \* the directories of a remote host
LocalPaths == {"/x/a", "/y/a", "/x/b"}      \* local items that can be dropped
Texts == {"a ", "c", "./a", " "}            \* what the operator can type in the prompt
ExecOutcomes == {"ok", "sentinel", "raise"} \* results of one remote listing command

(***************************************************************************)
(* Strings and paths: str.strip, pathlib.Path joining, .name and .parent.  *)
(***************************************************************************)
RECURSIVE Strip(_)
Strip(s) ==
    IF Len(s) = 0 THEN s
    ELSE IF SubSeq(s, 1, 1) = " " THEN Strip(SubSeq(s, 2, Len(s)))
    ELSE IF SubSeq(s, Len(s), Len(s)) = " " THEN Strip(SubSeq(s, 1, Len(s) - 1))
    ELSE s

\* The components of a path string: empty and "." components are dropped.
RECURSIVE Parts(_, _)
Parts(s, cur) ==
    LET flush == IF cur \in {"", "."} THEN <<>> ELSE <<cur>>
    IN  IF Len(s) = 0 THEN flush
        ELSE IF SubSeq(s, 1, 1) = "/"
             THEN flush \o Parts(SubSeq(s, 2, Len(s)), "")
             ELSE Parts(SubSeq(s, 2, Len(s)), cur \o SubSeq(s, 1, 1))

RECURSIVE JoinParts(_)
JoinParts(ps) ==
    IF ps = <<>> THEN "" ELSE "/" \o Head(ps) \o JoinParts(Tail(ps))

IsAbs(s) == Len(s) > 0 /\ SubSeq(s, 1, 1) = "/"

\* str(Path(...)) of an absolute path given by its components
PathStr(ps) == IF ps = <<>> THEN "/" ELSE JoinParts(ps)

\* str(Path(dir) / name)
PathJoin(dir, name) ==
    IF IsAbs(name) THEN PathStr(Parts(name, ""))
    ELSE PathStr(Parts(dir, "") \o Parts(name, ""))

\* Path(p).name
PathName(p) ==
    LET ps == Parts(p, "") IN IF ps = <<>> THEN "" ELSE ps[Len(ps)]

\* str(Path(p).parent)
PathParent(p) ==
    LET ps == Parts(p, "") IN IF ps = <<>> THEN "/" ELSE PathStr(SubSeq(ps, 1, Len(ps) - 1))

\* The components a are the first components of b.
IsPrefix(a, b) == Len(a) <= Len(b) /\ SubSeq(b, 1, Len(a)) = a

\* Path(cur).relative_to(Path(dir)) succeeds
IsInside(cur, dir) == IsPrefix(Parts(dir, ""), Parts(cur, ""))

(***************************************************************************)
(* State.                                                                  *)
(***************************************************************************)
VARIABLES
    connected,            \* remote_fs and uploader are set (connect_to_host succeeded)
    current_remote_path,  \* UploaderWindow.current_remote_path
    cache,                \* RemoteFileSystem.cache: path -> listing
    model_rows,           \* names shown in the flat view (UploaderWindow.model)
    remote,               \* the remote host: directory -> names in it
    listers,              \* RemoteListWorker threads still running
    uploads,              \* UploadWorker threads still running
    queue,                \* signals emitted by worker threads, queued for the main thread
    pc,                   \* where the main thread is
    drop,                 \* locals of the running (or last) handle_drop
    trace,                \* history: what the running (or last) handle_drop did
    hookRefreshes,        \* history: forced refreshes run by an upload's finished hook
    epoch,                \* history: number of drops begun and of remote edits done
    refreshes,            \* number of user-initiated refreshes so far
    fs,                   \* the RemoteFileSystem objects created so far; the last is
                          \* remote_fs while connected
    retired,              \* the caches of the RemoteFileSystem objects no longer
                          \* referenced by the window (their workers still use them)
    folder_model,         \* the folder tree: directory -> its item
    folder_workers,       \* UploaderWindow.folder_workers: the paths that have a marker
    refresh_expand_flag,  \* UploaderWindow._refresh_expand_flag
    gestures,             \* number of expand/collapse gestures and host switches so far
    edit,                 \* locals of the running (or last) handle_rename or handle_delete
    log_box,              \* UploaderWindow.log_box holds a "Failed to load" line
    current_index,        \* folder_tree.currentIndex(): the path of the selected tree
                          \* item, "" when there is none
    last_loaded           \* the last on_remote_loaded: its path (the current_path of
                          \* the flat view) and, as history, its entries

treeVars == <<fs, retired, folder_model, folder_workers, refresh_expand_flag, gestures, edit,
              log_box, current_index, last_loaded>>

vars == <<connected, current_remote_path, cache, model_rows, remote, listers,
          uploads, queue, pc, drop, trace, hookRefreshes, epoch, refreshes,
          fs, retired, folder_model, folder_workers, refresh_expand_flag, gestures,
          edit, log_box, current_index, last_loaded>>

\* A listing: the names parsed from one remote command; `epoch` (history) is the
\* number of drops that had begun when the command ran.
Listing(names, e) == [names |-> names, epoch |-> e]
NoItems == Listing({}, -1)

NoDrop ==
    [target |-> "", paths |-> <<>>, i |-> 1, refresh_after |-> FALSE,
     entries_by_name |-> {}, target_name |-> "",
     listed |-> {}, src |-> -1, atDrop |-> {}]

\* No handle_rename or handle_delete has run.
NoEdit == [op |-> "", path |-> "", new_path |-> "", parent |-> "", text |-> "", ok |-> FALSE]

\* One event of the history of a handle_drop.
Ev(op, item, name, arg, ok) ==
    [op |-> op, item |-> item, name |-> name, arg |-> arg, ok |-> ok]

(***************************************************************************)
(* RemoteFileSystem.cache                                                  *)
(***************************************************************************)
\* self.cache[path] = items
CachePut(c, path, items) ==
    [q \in (DOMAIN c) \cup {path} |-> IF q = path THEN items ELSE c[q]]

\* (variant: every call empties the cache)
ClearCacheDropsAll(c, path) == [q \in {} |-> NoItems]

\* clear_cache(path): path = "" stands for None
clear_cache(c, path) ==
    IF path # "" THEN [q \in (DOMAIN c) \ {path} |-> c[q]]
    ELSE [q \in {} |-> NoItems]

\* Remove element k of sequence s (UploaderWindow._cleanup_worker).
RemoveAt(s, k) == SubSeq(s, 1, k - 1) \o SubSeq(s, k + 1, Len(s))

(***************************************************************************)
(* The remote host.                                                        *)
(***************************************************************************)
\* rsync creates (or replaces) dest
RemoteCreate(r, dest) ==
    [p \in DOMAIN r |-> IF p = PathParent(dest) THEN r[p] \cup {PathName(dest)} ELSE r[p]]

\* rm -rf dest: the name leaves its directory, and what was below dest is gone
RemoteRemove(r, dest) ==
    [p \in DOMAIN r |->
        IF p = PathParent(dest) THEN r[p] \ {PathName(dest)}
        ELSE IF IsPrefix(Parts(dest, ""), Parts(p, "")) THEN {}
        ELSE r[p]]

(***************************************************************************)
(* Hosts.  The first RemoteFileSystem object talks to the host whose files *)
(* are `remote`; every later object talks to another host.                 *)
(***************************************************************************)
\* The names in directory p that are directories themselves.
SubDirs(p) == {PathName(d) : d \in {x \in Dirs : x # "/" /\ PathParent(x) = p}}

FirstHostFiles ==
    [p \in Dirs |-> CASE p = "/" -> {"home"}
                      [] p = "/home" -> {"a", "b", "user"}
                      [] OTHER -> {"a"}]

OtherHostFiles == [p \in Dirs |-> SubDirs(p) \cup {"z"}]

\* What the remote commands of RemoteFileSystem object h see.
HostFiles(h) == IF h <= 1 THEN remote ELSE OtherHostFiles

\* The cache of RemoteFileSystem object h.
CacheOf(h) == IF h = fs /\ connected THEN cache ELSE retired[h]

(***************************************************************************)
(* The folder tree (folder_model, a QStandardItemModel).  A directory has  *)
(* at most one item at a time; `item` numbers the items a directory has    *)
(* had, so that a callback holding a deleted item can be told apart.       *)
(* rows: the texts of the child rows, "" being the dummy row.              *)
(***************************************************************************)
NoItem == [alive |-> FALSE, item |-> 0, loaded |-> FALSE, rows |-> <<>>, expanded |-> FALSE]

\* (variant: the item is made without its dummy row)
NewItemWithoutDummy(old) ==
    [alive |-> TRUE, item |-> old.item + 1, loaded |-> FALSE, rows |-> <<>>,
     expanded |-> FALSE]

\* QStandardItem with the loaded flag False and one dummy row
NewItem(old) ==
    [alive |-> TRUE, item |-> old.item + 1, loaded |-> FALSE, rows |-> <<"">>,
     expanded |-> FALSE]

\* The item is deleted with its model or its parent's rows.
DeadItem(old) == [NoItem EXCEPT !.item = old.item]

\* The tree of a window at rest that shows HomePath: the chain of HomePath is
\* loaded and expanded.
RECURSIVE SeqOf(_)
SeqOf(S) == IF S = {} THEN <<>> ELSE LET x == CHOOSE y \in S : TRUE IN <<x>> \o SeqOf(S \ {x})

LoadedTree ==
    [d \in Dirs |-> [alive |-> TRUE, item |-> 1, loaded |-> TRUE,
                     rows |-> SeqOf(SubDirs(d)), expanded |-> TRUE]]

\* The part of the window that the tree handlers work on, threaded through the
\* calls of one handler: the folder model, the markers, the worker threads.
\* conn, h: remote_fs is set, and which object it is.
TreeState(fm, fw, ls, conn, h) == [fm |-> fm, fw |-> fw, ls |-> ls, conn |-> conn, h |-> h]

(***************************************************************************)
(* Initial state: see "Scope of Spec" above.                               *)
(***************************************************************************)
InitOn(files) ==
    /\ connected \in BOOLEAN
    /\ current_remote_path = HomePath
    /\ remote = files
    /\ cache = IF connected
               THEN [q \in {current_remote_path} |->
                        Listing(remote[current_remote_path], 0)]
               ELSE [q \in {} |-> NoItems]
    /\ model_rows = IF connected THEN remote[current_remote_path] ELSE {}
    /\ listers = <<>>
    /\ uploads = <<>>
    /\ queue = <<>>
    /\ pc = "idle"
    /\ drop = NoDrop
    /\ trace = <<>>
    /\ hookRefreshes = <<>>
    /\ epoch = 0
    /\ refreshes = 0
    /\ fs = IF connected THEN 1 ELSE 0
    /\ retired = [h \in {} |-> [q \in {} |-> NoItems]]
    /\ folder_model = IF connected THEN LoadedTree ELSE [d \in Dirs |-> NoItem]
    /\ folder_workers = {}
    /\ refresh_expand_flag = TRUE
    /\ gestures = 0
    /\ edit = NoEdit
    /\ log_box = FALSE
    /\ current_index = IF connected THEN current_remote_path ELSE ""
    /\ last_loaded = IF connected
                     THEN [path |-> current_remote_path, names |-> files[current_remote_path]]
                     ELSE [path |-> "/", names |-> {}]

\* The window after construction, the host holding FirstHostFiles.
Init == InitOn(FirstHostFiles)

(***************************************************************************)
(* Worker threads and the signals they queue for the main thread.          *)
(***************************************************************************)
NewLister(path) ==
    [path |-> path, st |-> "check", items |-> NoItems,
     fs |-> fs, owner |-> "view", item |-> 0]

\* The worker of ensure_folder_children for the item `item` of `path`, on
\* RemoteFileSystem object h.
NewTreeLister(path, item, h) ==
    [path |-> path, st |-> "check", items |-> NoItems,
     fs |-> h, owner |-> "tree", item |-> item]

\* A queued signal: RemoteListWorker.completed(path, items), .failed, or
\* UploadWorker.finished (hook: refresh_remote_view(force=True) is connected to it;
\* batch, history: the drop that started the worker).
Signal(kind, path, items, hook, batch) ==
    [kind |-> kind, path |-> path, items |-> items, hook |-> hook, batch |-> batch,
     item |-> 0]

\* completed(path, items) of worker w: on_remote_loaded for a worker of the
\* flat view, on_done(target_item) for a worker of the tree
Completed(w, items) ==
    [Signal(IF w.owner = "tree" THEN "tree_done" ELSE "loaded", w.path, items, FALSE, 0)
        EXCEPT !.item = w.item]

\* failed(error) of worker w
Failed(w) ==
    [Signal(IF w.owner = "tree" THEN "tree_failed" ELSE "failed", w.path, NoItems,
            FALSE, 0)
        EXCEPT !.item = w.item]

\* run() has emitted its signal: a worker of the tree still has the finished
\* signal of its thread to emit, which ensure_folder_children connected to
AfterRun(k) ==
    IF listers[k].owner = "tree"
    THEN [listers EXCEPT ![k].st = "finish"]
    ELSE RemoveAt(listers, k)

\* The queued signals are delivered in order, when the main thread is in an
\* event loop: the application's, or the nested one of an open dialog.
InEventLoop == pc \in {"idle", "drop_prompt"}

\* list_directory, first test: a cached path is answered from the cache
ListCheckCache(k) ==
    /\ k \in 1..Len(listers)
    /\ listers[k].st = "check"
    /\ LET w == listers[k]
           c == CacheOf(w.fs)
       IN  IF w.path \in DOMAIN c
           THEN /\ listers' = AfterRun(k)
                /\ queue' = Append(queue, Completed(w, c[w.path]))
           ELSE /\ listers' = [listers EXCEPT ![k].st = "exec"]
                /\ queue' = queue
    /\ UNCHANGED <<treeVars, connected, current_remote_path, cache, model_rows, remote,
                   uploads, pc, drop, trace, hookRefreshes, epoch, refreshes>>

\* What list_directory makes of one remote command: the parsed listing to store
\* ("ok"), an empty list that is not stored ("sentinel"), or an exception.
ListResult(out, names, e) ==
    IF out = "ok" THEN Listing(names, e) ELSE Listing({}, e)

\* The directory p is on the host with the files r.
RECURSIVE Exists(_, _)
Exists(r, p) ==
    \/ p = "/"
    \/ /\ PathName(p) \in r[PathParent(p)]
       /\ Exists(r, PathParent(p))

\* list_directory: the remote command runs and its output is parsed; cd to a
\* directory that is not there prints the sentinel
ListExec(k, out) ==
    /\ k \in 1..Len(listers)
    /\ listers[k].st = "exec"
    /\ out = "ok" => Exists(HostFiles(listers[k].fs), listers[k].path)
    /\ LET w == listers[k]
           items == ListResult(out, HostFiles(w.fs)[w.path], epoch)
       IN  CASE out = "ok" ->
                  /\ listers' = [listers EXCEPT ![k].st = "store", ![k].items = items]
                  /\ queue' = queue
             [] out = "sentinel" ->
                  /\ listers' = AfterRun(k)
                  /\ queue' = Append(queue, Completed(w, items))
             [] out = "raise" ->
                  /\ listers' = AfterRun(k)
                  /\ queue' = Append(queue, Failed(w))
    /\ UNCHANGED <<treeVars, connected, current_remote_path, cache, model_rows, remote,
                   uploads, pc, drop, trace, hookRefreshes, epoch, refreshes>>

\* list_directory: the worker thread stores the listing in the cache of its
\* RemoteFileSystem object and returns; run() emits completed(path, items)
ListStore(k) ==
    /\ k \in 1..Len(listers)
    /\ listers[k].st = "store"
    /\ LET w == listers[k] IN
       /\ IF w.fs = fs /\ connected
          THEN /\ cache' = CachePut(cache, w.path, w.items)
               /\ retired' = retired
          ELSE /\ retired' = [retired EXCEPT ![w.fs] = CachePut(@, w.path, w.items)]
               /\ cache' = cache
       /\ listers' = AfterRun(k)
       /\ queue' = Append(queue, Completed(w, w.items))
    /\ UNCHANGED <<last_loaded, current_index, log_box, edit, fs, folder_model,
                   folder_workers, refresh_expand_flag, gestures,
                   connected, current_remote_path, model_rows, remote, uploads,
                   pc, drop, trace, hookRefreshes, epoch, refreshes>>

\* The thread of a tree worker ends: QThread.finished is emitted
ListFinish(k) ==
    /\ k \in 1..Len(listers)
    /\ listers[k].st = "finish"
    /\ LET w == listers[k] IN
       /\ listers' = RemoveAt(listers, k)
       /\ queue' = Append(queue, [Signal("tree_finished", w.path, NoItems, FALSE, 0)
                                    EXCEPT !.item = w.item])
    /\ UNCHANGED <<treeVars, connected, current_remote_path, cache, model_rows, remote,
                   uploads, pc, drop, trace, hookRefreshes, epoch, refreshes>>

\* UploadWorker.run: FileUploader.upload runs rsync, then finished is emitted
UploadRun(k, ok) ==
    /\ k \in 1..Len(uploads)
    /\ LET u == uploads[k] IN
       /\ remote' = IF ok THEN RemoteCreate(remote, u.dest) ELSE remote
       /\ uploads' = RemoveAt(uploads, k)
       /\ queue' = Append(queue, Signal("uploaded", u.dest, NoItems, u.hook, u.batch))
    /\ UNCHANGED <<treeVars, connected, current_remote_path, cache, model_rows, listers,
                   pc, drop, trace, hookRefreshes, epoch, refreshes>>

(***************************************************************************)
(* Main thread: the folder tree.                                           *)
(***************************************************************************)
\* ensure_folder_children(item), item being the item of `path`
ensure_folder_children(T, path) ==
    LET n == T.fm[path] IN
    IF n.loaded THEN T
    ELSE IF path = "" \/ ~T.conn THEN T
    ELSE IF path \in T.fw THEN T
    ELSE [T EXCEPT !.fw = @ \cup {path},
                   !.ls = Append(@, NewTreeLister(path, n.item, T.h))]

\* folder_tree.setExpanded(idx, True) / expand(idx): a collapsed item is
\* expanded, the view emits expanded(idx), on_folder_expanded runs
set_expanded(T, path) ==
    IF T.fm[path].expanded THEN T
    ELSE ensure_folder_children([T EXCEPT !.fm[path].expanded = TRUE], path)

\* find_child(parent_item, name): a row of the item whose text is name
HasChild(T, path, name) ==
    \E r \in 1..Len(T.fm[path].rows) : T.fm[path].rows[r] = name

\* (variant: the loop loads and expands whatever the expand argument is)
RECURSIVE SyncWalkAlwaysExpands(_, _, _, _)
SyncWalkAlwaysExpands(T, cur, segs, expand) ==
    IF segs = <<>> \/ ~T.fm[cur].alive THEN T
    ELSE LET T1 == ensure_folder_children(T, cur)
             child == PathJoin(cur, Head(segs))
         IN  IF HasChild(T1, cur, Head(segs))
             THEN SyncWalkAlwaysExpands(set_expanded(T1, child), child, Tail(segs), expand)
             ELSE T1

\* The loop of sync_folder_selection from the item of `cur` over the segments
\* that are left.
RECURSIVE SyncWalk(_, _, _, _)
SyncWalk(T, cur, segs, expand) ==
    IF segs = <<>> \/ ~T.fm[cur].alive THEN T
    ELSE LET T1 == IF expand THEN ensure_folder_children(T, cur) ELSE T
             child == PathJoin(cur, Head(segs))
         IN  IF HasChild(T1, cur, Head(segs))
             THEN SyncWalk(IF expand THEN set_expanded(T1, child) ELSE T1,
                           child, Tail(segs), expand)
             ELSE T1

\* The item the loop of sync_folder_selection ends on; the rows of the tree do
\* not change during the loop.
RECURSIVE SyncStop(_, _, _)
SyncStop(T, cur, segs) ==
    IF segs = <<>> \/ ~T.fm[cur].alive THEN cur
    ELSE IF HasChild(T, cur, Head(segs))
         THEN SyncStop(T, PathJoin(cur, Head(segs)), Tail(segs))
         ELSE cur

\* if item: self.folder_tree.setCurrentIndex(idx)
SyncSelect(T, path, index) ==
    IF T.fm["/"].alive THEN SyncStop(T, "/", Parts(path, "")) ELSE index

\* sync_folder_selection(path, expand)
sync_folder_selection(T, path, expand) == SyncWalk(T, "/", Parts(path, ""), expand)

\* build_folder_root(base_path): the model is cleared, the root item is made,
\* expanded and loaded, the selection is synchronised
build_folder_root(T, base_path) ==
    LET fm0 == [d \in Dirs |-> IF d = "/" THEN NewItem(T.fm[d]) ELSE DeadItem(T.fm[d])]
        T1 == set_expanded([T EXCEPT !.fm = fm0], "/")
        T2 == ensure_folder_children(T1, "/")
    IN  sync_folder_selection(T2, base_path, TRUE)

\* The directories below p.
Below(p) == {d \in Dirs : d # p /\ IsInside(d, p)}

\* on_done(p, items, target_item): the rows of the item are replaced by one
\* row per directory or link of the listing, the loaded flag is set
LoadChildren(fm, p, items) ==
    LET kids == {n \in items.names : PathJoin(p, n) \in Dirs} IN
    [d \in Dirs |->
        IF d = p THEN [fm[d] EXCEPT !.loaded = TRUE, !.rows = SeqOf(kids)]
        ELSE IF d \in Below(p)
             THEN IF PathParent(d) = p /\ PathName(d) \in kids
                  THEN NewItem(fm[d])
                  ELSE DeadItem(fm[d])
             ELSE fm[d]]

\* The item a callback holds is still the item of its path.
ItemLives(fm, path, item) == fm[path].alive /\ fm[path].item = item

\* completed of a tree worker: on_done.  On a deleted item removeRows raises
\* and the slot ends after the marker was removed.
OnTreeDone ==
    /\ InEventLoop
    /\ queue # <<>>
    /\ Head(queue).kind = "tree_done"
    /\ LET s == Head(queue) IN
       /\ folder_workers' = folder_workers \ {s.path}
       /\ folder_model' = IF ItemLives(folder_model, s.path, s.item)
                          THEN LoadChildren(folder_model, s.path, s.items)
                          ELSE folder_model
    /\ queue' = Tail(queue)
    /\ UNCHANGED <<last_loaded, current_index, log_box, edit, fs, retired,
                   refresh_expand_flag, gestures, connected,
                   current_remote_path, cache, model_rows, remote, listers, uploads,
                   pc, drop, trace, hookRefreshes, epoch, refreshes>>

\* on_fail(err): self.folder_workers.pop(p, None)
on_fail(fw, path) == fw \ {path}

\* failed of a tree worker
OnTreeFailed ==
    /\ InEventLoop
    /\ queue # <<>>
    /\ Head(queue).kind = "tree_failed"
    /\ folder_workers' = on_fail(folder_workers, Head(queue).path)
    /\ queue' = Tail(queue)
    /\ UNCHANGED <<last_loaded, current_index, log_box, edit, fs, retired, folder_model,
                   refresh_expand_flag, gestures, connected,
                   current_remote_path, cache, model_rows, remote, listers, uploads,
                   pc, drop, trace, hookRefreshes, epoch, refreshes>>

\* finished of a tree worker's thread: lambda: self.folder_workers.pop(path, None)
OnTreeFinished ==
    /\ InEventLoop
    /\ queue # <<>>
    /\ Head(queue).kind = "tree_finished"
    /\ folder_workers' = folder_workers \ {Head(queue).path}
    /\ queue' = Tail(queue)
    /\ UNCHANGED <<last_loaded, current_index, log_box, edit, fs, retired, folder_model,
                   refresh_expand_flag, gestures, connected,
                   current_remote_path, cache, model_rows, remote, listers, uploads,
                   pc, drop, trace, hookRefreshes, epoch, refreshes>>

\* The tree part of the window before a handler runs.
Tree == TreeState(folder_model, folder_workers, listers, connected, fs)

\* The operator expands the item of `path`: on_folder_expanded
OnFolderExpanded(path) ==
    /\ pc = "idle"
    /\ gestures < MaxGestures
    /\ folder_model[path].alive
    /\ ~folder_model[path].expanded
    /\ folder_model[path].rows # <<>>
    /\ gestures' = gestures + 1
    /\ LET T == set_expanded(Tree, path) IN
       /\ folder_model' = T.fm
       /\ folder_workers' = T.fw
       /\ listers' = T.ls
    /\ UNCHANGED <<last_loaded, current_index, log_box, edit, fs, retired,
                   refresh_expand_flag, connected, current_remote_path,
                   cache, model_rows, remote, uploads, queue, pc, drop, trace,
                   hookRefreshes, epoch, refreshes>>

\* connect_to_host: ok tells whether the host is found in the SSH
\* configuration and the tools are installed.  The RemoteFileSystem of the
\* window is dropped; the workers that run keep it.
ConnectToHost(ok) ==
    /\ pc = "idle"
    /\ fs < MaxConnects
    /\ retired' = IF connected
                  THEN [h \in (DOMAIN retired) \cup {fs} |->
                            IF h = fs THEN cache ELSE retired[h]]
                  ELSE retired
    /\ cache' = [q \in {} |-> NoItems]
    /\ connected' = ok
    /\ IF ok
       THEN LET T == build_folder_root(
                        TreeState(folder_model, folder_workers, listers, TRUE, fs + 1),
                        current_remote_path)
            IN  /\ fs' = fs + 1
                /\ folder_model' = T.fm
                /\ folder_workers' = T.fw
                /\ current_index' = SyncSelect(T, current_remote_path, "")
                /\ refresh_expand_flag' = TRUE
                /\ model_rows' = {}
                /\ listers' = Append(T.ls, [NewLister(current_remote_path)
                                               EXCEPT !.fs = fs + 1])
       ELSE UNCHANGED <<fs, folder_model, folder_workers, refresh_expand_flag,
                        model_rows, listers, current_index>>
    /\ UNCHANGED <<last_loaded, log_box, edit, gestures, current_remote_path, remote,
                   uploads, queue,
                   pc, drop, trace, hookRefreshes, epoch, refreshes>>

(***************************************************************************)
(* Main thread: the flat view.                                             *)
(***************************************************************************)
\* refresh_remote_view(expand, force) with current_remote_path = path, up to the
\* start of its worker
refresh_view(path, expand, force) ==
    IF ~connected
    THEN UNCHANGED <<cache, model_rows, refresh_expand_flag>>
    ELSE /\ cache' = IF force THEN clear_cache(cache, path) ELSE cache
         /\ refresh_expand_flag' = expand
         /\ model_rows' = {}

\* refresh_remote_view: the worker it starts
Refreshed(ls, path) == IF connected THEN Append(ls, NewLister(path)) ELSE ls

\* refresh_remote_view(expand, force) with current_remote_path = path
refresh_remote_view(path, expand, force) ==
    /\ refresh_view(path, expand, force)
    /\ listers' = Refreshed(listers, path)

\* navigate_to_path: the operator enters a path in the path bar
NavigateToPath(p) ==
    /\ pc = "idle"
    /\ refreshes < MaxRefreshes
    /\ refreshes' = refreshes + 1
    /\ current_remote_path' = p
    /\ refresh_view(p, TRUE, FALSE)
    /\ LET T == sync_folder_selection(
                    TreeState(folder_model, folder_workers, Refreshed(listers, p),
                              connected, fs), p, TRUE)
       IN  /\ folder_model' = T.fm
           /\ folder_workers' = T.fw
           /\ listers' = T.ls
           /\ current_index' = SyncSelect(T, p, current_index)
    /\ UNCHANGED <<last_loaded, log_box, edit, fs, retired, gestures, connected, remote,
                   uploads, queue,
                   pc, drop, trace, hookRefreshes, epoch>>

\* the refresh button: refresh_remote_view(force=True)
RefreshClicked ==
    /\ pc = "idle"
    /\ refreshes < MaxRefreshes
    /\ refreshes' = refreshes + 1
    /\ refresh_remote_view(current_remote_path, TRUE, TRUE)
    /\ UNCHANGED <<last_loaded, current_index, log_box, edit, fs, retired, folder_model,
                   folder_workers, gestures, connected,
                   current_remote_path, remote, uploads, queue, pc, drop,
                   trace, hookRefreshes, epoch>>

\* The operator collapses the item of `path`: on_folder_collapsed
OnFolderCollapsed(path) ==
    /\ pc = "idle"
    /\ gestures < MaxGestures
    /\ folder_model[path].alive
    /\ folder_model[path].expanded
    /\ gestures' = gestures + 1
    /\ folder_model' = [folder_model EXCEPT ![path].expanded = FALSE]
    /\ IF IsInside(current_remote_path, path)
       THEN /\ current_remote_path' = PathStr(Parts(path, ""))
            /\ refresh_remote_view(current_remote_path', FALSE, FALSE)
            /\ current_index' = path
       ELSE UNCHANGED <<current_remote_path, cache, model_rows, refresh_expand_flag,
                        listers, current_index>>
    /\ UNCHANGED <<last_loaded, log_box, edit, fs, retired, folder_workers, connected,
                   remote, uploads,
                   queue, pc, drop, trace, hookRefreshes, epoch, refreshes>>

\* on_remote_loaded(path, items)
OnRemoteLoaded ==
    /\ InEventLoop
    /\ queue # <<>>
    /\ Head(queue).kind = "loaded"
    /\ LET s == Head(queue)
           T == sync_folder_selection(Tree, s.path, refresh_expand_flag)
       IN
       /\ cache' = IF connected THEN CachePut(cache, s.path, s.items) ELSE cache
       /\ current_remote_path' = s.path
       /\ model_rows' = s.items.names
       /\ folder_model' = T.fm
       /\ folder_workers' = T.fw
       /\ listers' = T.ls
       /\ current_index' = SyncSelect(T, s.path, current_index)
       /\ last_loaded' = [path |-> s.path, names |-> s.items.names]
    /\ queue' = Tail(queue)
    /\ UNCHANGED <<log_box, edit, fs, retired, refresh_expand_flag, gestures, connected, remote,
                   uploads, pc, drop, trace, hookRefreshes, epoch, refreshes>>

\* on_remote_load_failed(error): the failure is logged and shown
OnRemoteLoadFailed ==
    /\ InEventLoop
    /\ queue # <<>>
    /\ Head(queue).kind = "failed"
    /\ queue' = Tail(queue)
    /\ log_box' = TRUE
    /\ UNCHANGED <<last_loaded, fs, retired, folder_model, folder_workers, refresh_expand_flag,
                   gestures, edit, current_index, connected, current_remote_path, cache,
                   model_rows, remote,
                   listers, uploads, pc, drop, trace, hookRefreshes, epoch, refreshes>>

\* the slots of UploadWorker.finished: the refresh connected by handle_drop to
\* the last item's worker, then _cleanup_worker
OnUploadFinished ==
    /\ InEventLoop
    /\ queue # <<>>
    /\ Head(queue).kind = "uploaded"
    /\ IF Head(queue).hook
       THEN /\ refresh_remote_view(current_remote_path, TRUE, TRUE)
            /\ hookRefreshes' =
                 Append(hookRefreshes,
                        [path |-> current_remote_path, batch |-> Head(queue).batch])
       ELSE UNCHANGED <<cache, model_rows, listers, hookRefreshes, refresh_expand_flag>>
    /\ queue' = Tail(queue)
    /\ UNCHANGED <<last_loaded, current_index, log_box, edit, fs, retired, folder_model,
                   folder_workers, gestures, connected, current_remote_path, remote,
                   uploads, pc, drop, trace,
                   epoch, refreshes>>

(***************************************************************************)
(* The window with its folder tree and the host selector, without drops.   *)
(***************************************************************************)
\* The worker threads that are scheduled: the oldest MaxRunning of them.
Running == {k \in 1..Len(listers) : k <= MaxRunning}

TreeNext ==
    \/ \E ok \in BOOLEAN : ConnectToHost(ok)
    \/ \E p \in Paths : NavigateToPath(p)
    \/ RefreshClicked
    \/ \E d \in Dirs : OnFolderExpanded(d)
    \/ \E d \in Dirs : OnFolderCollapsed(d)
    \/ \E k \in Running : ListCheckCache(k)
    \/ \E k \in Running, out \in ExecOutcomes : ListExec(k, out)
    \/ \E k \in Running : ListStore(k)
    \/ \E k \in Running : ListFinish(k)
    \/ OnRemoteLoaded
    \/ OnRemoteLoadFailed
    \/ OnTreeDone
    \/ OnTreeFailed
    \/ OnTreeFinished

\* The window after its first connection has loaded the tree.
TreeInit == Init /\ connected = TRUE

TreeSpec == TreeInit /\ [][TreeNext]_vars

\* The worker thread that is scheduled when the threads run one after the
\* other, in the order they were started.
Oldest == {k \in 1..Len(listers) : k = 1}

\* The folder tree on its own: connections and gestures on the tree, without
\* the path bar and the refresh button.
NodeNext ==
    \/ \E ok \in BOOLEAN : ConnectToHost(ok)
    \/ \E d \in Dirs : OnFolderExpanded(d)
    \/ \E d \in Dirs : OnFolderCollapsed(d)
    \/ \E k \in Oldest : ListCheckCache(k)
    \/ \E k \in Oldest, out \in ExecOutcomes : ListExec(k, out)
    \/ \E k \in Oldest : ListStore(k)
    \/ \E k \in Oldest : ListFinish(k)
    \/ OnRemoteLoaded
    \/ OnRemoteLoadFailed
    \/ OnTreeDone
    \/ OnTreeFailed
    \/ OnTreeFinished

NodeSpec == TreeInit /\ [][NodeNext]_vars

\* The callers of sync_folder_selection on their own: connections and
\* collapses refresh the view and on_remote_loaded walks the tree; the rows of
\* the tree are those that the walks themselves have materialized.
WalkNext ==
    \/ \E ok \in BOOLEAN : ConnectToHost(ok)
    \/ \E d \in Dirs : OnFolderCollapsed(d)
    \/ \E k \in Oldest : ListCheckCache(k)
    \/ \E k \in Oldest, out \in ExecOutcomes : ListExec(k, out)
    \/ \E k \in Oldest : ListStore(k)
    \/ \E k \in Oldest : ListFinish(k)
    \/ OnRemoteLoaded
    \/ OnRemoteLoadFailed
    \/ OnTreeDone
    \/ OnTreeFailed
    \/ OnTreeFinished

WalkSpec == TreeInit /\ [][WalkNext]_vars

(***************************************************************************)
(* Main thread: handle_drop.                                               *)
(***************************************************************************)
\* The batches that can be dropped: distinct local items, in order.
Batches ==
    {b \in UNION {[1..n -> LocalPaths] : n \in 1..MaxBatch} :
        \A x, y \in DOMAIN b : b[x] = b[y] => x = y}

\* Re-prompts recorded for the running batch.
Reprompts ==
    Cardinality({k \in 1..Len(trace) :
                    /\ trace[k].op = "answer"
                    /\ trace[k].ok
                    /\ k < Len(trace) => trace[k + 1].op = "answer"
                                         /\ trace[k + 1].item = trace[k].item})

\* handle_drop up to clear_cache: the guards, refresh_after, the eviction
DropBegin(paths, target) ==
    /\ pc = "idle"
    /\ epoch = 0
    /\ IF ~connected
       THEN UNCHANGED vars
       ELSE LET refresh_after == (target = current_remote_path) IN
            /\ cache' = clear_cache(cache, IF refresh_after THEN target ELSE "")
            /\ drop' = [NoDrop EXCEPT !.target = target, !.paths = paths,
                                      !.refresh_after = refresh_after,
                                      !.atDrop = remote[target]]
            /\ trace' = <<>>
            /\ epoch' = epoch + 1
            /\ pc' = "drop_check"
            /\ UNCHANGED <<treeVars, connected, current_remote_path, model_rows, remote, listers,
                           uploads, queue, hookRefreshes, refreshes>>

\* entries_by_name = {e.get("name"): e for e in entries if e.get("name")}
EntriesByName(items) == {n \in items.names : n # ""}

\* list_directory(target_path) on the main thread, first test
DropCheckCache ==
    /\ pc = "drop_check"
    /\ IF drop.target \in DOMAIN cache
       THEN /\ drop' = [drop EXCEPT
                          !.entries_by_name = EntriesByName(cache[drop.target]),
                          !.listed = cache[drop.target].names,
                          !.src = cache[drop.target].epoch]
            /\ pc' = "drop_loop"
       ELSE /\ drop' = drop
            /\ pc' = "drop_exec"
    /\ UNCHANGED <<treeVars, connected, current_remote_path, cache, model_rows, remote, listers,
                   uploads, queue, trace, hookRefreshes, epoch, refreshes>>

\* list_directory(target_path) on the main thread: the remote command; an
\* exception leaves entries_by_name empty
DropExec(out) ==
    /\ pc = "drop_exec"
    /\ LET items == ListResult(out, remote[drop.target], epoch) IN
       CASE out = "ok" ->
              /\ drop' = [drop EXCEPT !.listed = items.names, !.src = items.epoch]
              /\ pc' = "drop_store"
         [] out = "sentinel" ->
              /\ drop' = [drop EXCEPT !.entries_by_name = EntriesByName(items),
                                      !.listed = items.names, !.src = items.epoch]
              /\ pc' = "drop_loop"
         [] out = "raise" ->
              /\ drop' = [drop EXCEPT !.entries_by_name = {}]
              /\ pc' = "drop_loop"
    /\ UNCHANGED <<treeVars, connected, current_remote_path, cache, model_rows, remote, listers,
                   uploads, queue, trace, hookRefreshes, epoch, refreshes>>

\* list_directory(target_path) on the main thread: the listing is stored and returned
DropStore ==
    /\ pc = "drop_store"
    /\ LET items == Listing(drop.listed, drop.src) IN
       /\ cache' = CachePut(cache, drop.target, items)
       /\ drop' = [drop EXCEPT !.entries_by_name = EntriesByName(items)]
    /\ pc' = "drop_loop"
    /\ UNCHANGED <<treeVars, connected, current_remote_path, model_rows, remote, listers,
                   uploads, queue, trace, hookRefreshes, epoch, refreshes>>

\* (variant: the chosen name is left out of the destination)
RemoteDestWithoutName(target, name) == target

\* remote_dest = str(Path(target_path) / target_name)
RemoteDest(target, name) == PathJoin(target, name)

\* entries_by_name[target_name] = {"name": target_name}
Placeholder(entries, name) == entries \cup {name}

\* refresh_after and i == last_idx: the refresh is connected to this item's worker
HookRefresh(d) == d.refresh_after /\ d.i = Len(d.paths)

\* worker = UploadWorker(self.uploader, local_path, remote_dest); worker.start()
NewUpload(d, name) ==
    [dest |-> RemoteDest(d.target, name), hook |-> HookRefresh(d), batch |-> epoch]

\* (variant: a cancelled prompt keeps the conflicting name)
DecideCancelKeeps(text, ok, current_name, entries) ==
    IF ~ok THEN [kind |-> "overwrite", name |-> current_name]
    ELSE LET t == Strip(text) IN
         IF t = "" THEN [kind |-> "reprompt", name |-> current_name]
         ELSE IF t = current_name THEN [kind |-> "overwrite", name |-> t]
         ELSE IF t \in entries THEN [kind |-> "reprompt", name |-> t]
         ELSE [kind |-> "accept", name |-> t]

\* (variant: blank input skips the item)
DecideBlankSkips(text, ok, current_name, entries) ==
    IF ~ok THEN [kind |-> "skip", name |-> ""]
    ELSE LET t == Strip(text) IN
         IF t = "" THEN [kind |-> "skip", name |-> ""]
         ELSE IF t = current_name THEN [kind |-> "overwrite", name |-> t]
         ELSE IF t \in entries THEN [kind |-> "reprompt", name |-> t]
         ELSE [kind |-> "accept", name |-> t]

\* (variant: a new name is accepted without looking it up)
DecideNoRevalidation(text, ok, current_name, entries) ==
    IF ~ok THEN [kind |-> "skip", name |-> ""]
    ELSE LET t == Strip(text) IN
         IF t = "" THEN [kind |-> "reprompt", name |-> current_name]
         ELSE IF t = current_name THEN [kind |-> "overwrite", name |-> t]
         ELSE [kind |-> "accept", name |-> t]

\* One pass of the body of `while existing`, after the dialog returned (text, ok):
\* what becomes of the item.
Decide(text, ok, current_name, entries) ==
    IF ~ok THEN [kind |-> "skip", name |-> ""]
    ELSE LET t == Strip(text) IN
         IF t = "" THEN [kind |-> "reprompt", name |-> current_name]
         ELSE IF t = current_name THEN [kind |-> "overwrite", name |-> t]
         ELSE IF t \in entries THEN [kind |-> "reprompt", name |-> t]
         ELSE [kind |-> "accept", name |-> t]

\* (variant: no delete before an overwrite)
NeverDeletes(overwrite, existing) == FALSE

\* if overwrite and existing and self.remote_fs
NeedsDelete(overwrite, existing) == overwrite /\ existing /\ connected

\* (variant: the exception of a failed delete leaves the handler)
StopsAfterFailedDelete(delOk) == delOk

\* try: delete_path(...) except Exception: pass -- the handler goes on either way
GoesOnAfterDelete(delOk) == TRUE

\* The for loop of handle_drop: the next item, up to its prompt or its dispatch.
\* (Every path of LocalPaths has a non-empty name, so target_name is set here.)
DropLoop ==
    /\ pc = "drop_loop"
    /\ IF drop.i > Len(drop.paths)
       THEN /\ pc' = "idle"
            /\ UNCHANGED <<drop, trace, uploads>>
       ELSE LET local_name == PathName(drop.paths[drop.i]) IN
            IF local_name \in drop.entries_by_name
            THEN /\ pc' = "drop_prompt"
                 /\ drop' = [drop EXCEPT !.target_name = local_name]
                 /\ UNCHANGED <<trace, uploads>>
            ELSE /\ pc' = "drop_loop"
                 /\ uploads' = Append(uploads, NewUpload(drop, local_name))
                 /\ trace' = Append(trace,
                       Ev("upload", drop.i, local_name,
                          RemoteDest(drop.target, local_name), FALSE))
                 /\ drop' = [drop EXCEPT
                               !.entries_by_name = Placeholder(@, local_name),
                               !.target_name = local_name,
                               !.i = @ + 1]
    /\ UNCHANGED <<treeVars, connected, current_remote_path, cache, model_rows, remote, listers,
                   queue, hookRefreshes, epoch, refreshes>>

\* The dialog returns (text, ok); delOk: whether the remote delete of an
\* explicit overwrite succeeds.
DropAnswer(text, ok, delOk) ==
    /\ pc = "drop_prompt"
    /\ LET d == drop
           dec == Decide(text, ok, d.target_name, d.entries_by_name)
           ans == Ev("answer", d.i, d.target_name, IF ok THEN Strip(text) ELSE "", ok)
           dest == RemoteDest(d.target, dec.name)
           del == NeedsDelete(dec.kind = "overwrite", d.target_name \in d.entries_by_name)
       IN
       /\ dec.kind = "reprompt" => Reprompts < MaxPrompts
       /\ ~delOk => (dec.kind = "overwrite" /\ del)
       /\ CASE dec.kind = "skip" ->
                 /\ trace' = Append(trace, ans)
                 /\ drop' = [d EXCEPT !.target_name = "", !.i = @ + 1]
                 /\ pc' = "drop_loop"
                 /\ UNCHANGED <<uploads, remote>>
            [] dec.kind = "reprompt" ->
                 /\ trace' = Append(trace, ans)
                 /\ drop' = [d EXCEPT !.target_name = dec.name]
                 /\ pc' = "drop_prompt"
                 /\ UNCHANGED <<uploads, remote>>
            [] dec.kind = "accept" ->
                 /\ trace' = trace \o <<ans, Ev("upload", d.i, dec.name, dest, FALSE)>>
                 /\ uploads' = Append(uploads, NewUpload(d, dec.name))
                 /\ drop' = [d EXCEPT !.entries_by_name = Placeholder(@, dec.name),
                                      !.target_name = dec.name,
                                      !.i = @ + 1]
                 /\ pc' = "drop_loop"
                 /\ UNCHANGED remote
            [] dec.kind = "overwrite" ->
                 LET delEv == IF del THEN <<Ev("delete", d.i, dec.name, dest, delOk)>>
                              ELSE <<>>
                 IN
                 /\ remote' = IF del /\ delOk THEN RemoteRemove(remote, dest) ELSE remote
                 /\ IF del /\ ~GoesOnAfterDelete(delOk)
                    THEN /\ trace' = trace \o <<ans>> \o delEv
                         /\ drop' = d
                         /\ pc' = "idle"
                         /\ UNCHANGED uploads
                    ELSE /\ trace' = trace \o <<ans>> \o delEv
                                       \o <<Ev("upload", d.i, dec.name, dest, TRUE)>>
                         /\ uploads' = Append(uploads, NewUpload(d, dec.name))
                         /\ drop' = [d EXCEPT
                                       !.entries_by_name = Placeholder(@, dec.name),
                                       !.target_name = dec.name,
                                       !.i = @ + 1]
                         /\ pc' = "drop_loop"
    /\ UNCHANGED <<treeVars, connected, current_remote_path, cache, model_rows, listers, queue,
                   hookRefreshes, epoch, refreshes>>

(***************************************************************************)
(* Specification.                                                          *)
(***************************************************************************)
Next ==
    \/ \E k \in 1..Len(listers) : ListCheckCache(k)
    \/ \E k \in 1..Len(listers), out \in ExecOutcomes : ListExec(k, out)
    \/ \E k \in 1..Len(listers) : ListStore(k)
    \/ OnRemoteLoaded
    \/ OnRemoteLoadFailed
    \/ \E b \in Batches, t \in Paths : DropBegin(b, t)
    \/ DropCheckCache
    \/ \E out \in ExecOutcomes : DropExec(out)
    \/ DropStore
    \/ DropLoop
    \/ \E text \in Texts, ok \in BOOLEAN, delOk \in BOOLEAN : DropAnswer(text, ok, delOk)
    \/ \E k \in 1..Len(uploads), ok \in BOOLEAN : UploadRun(k, ok)
    \/ OnUploadFinished

Spec == Init /\ [][Next]_vars

(***************************************************************************)
(* RaceSpec: a drop of one item while listings started by the operator     *)
(* (path bar, refresh button) are still running in their threads.          *)
(***************************************************************************)
SingleItemBatches == {b \in Batches : Len(b) = 1}

RaceNext ==
    \/ \E p \in Paths : NavigateToPath(p)
    \/ RefreshClicked
    \/ \E k \in 1..Len(listers) : ListCheckCache(k)
    \/ \E k \in 1..Len(listers), out \in ExecOutcomes : ListExec(k, out)
    \/ \E k \in 1..Len(listers) : ListStore(k)
    \/ OnRemoteLoaded
    \/ OnRemoteLoadFailed
    \/ \E b \in SingleItemBatches, t \in Paths : DropBegin(b, t)
    \/ DropCheckCache
    \/ \E out \in ExecOutcomes : DropExec(out)
    \/ DropStore
    \/ DropLoop
    \/ \E text \in Texts, ok \in BOOLEAN, delOk \in BOOLEAN : DropAnswer(text, ok, delOk)
    \/ \E k \in 1..Len(uploads), ok \in BOOLEAN : UploadRun(k, ok)
    \/ OnUploadFinished

RaceSpec == Init /\ [][RaceNext]_vars

(***************************************************************************)
(* CacheSpec: RemoteFileSystem used by one thread.  Calls of               *)
(* list_directory and clear_cache follow one another, while transfers      *)
(* change the remote host; `trace` records the calls.                      *)
(***************************************************************************)
\* list_directory(path), run to its end on cache c: the command's outcome is
\* `out`, its listing `names`.  ran: the remote command was issued.
list_directory(c, path, out, names, e) ==
    IF path \in DOMAIN c
    THEN [cache |-> c, items |-> c[path], ran |-> FALSE, raised |-> FALSE]
    ELSE CASE out = "ok" ->
                [cache |-> CachePut(c, path, ListResult(out, names, e)),
                 items |-> ListResult(out, names, e), ran |-> TRUE, raised |-> FALSE]
           [] out = "sentinel" ->
                [cache |-> c, items |-> ListResult(out, names, e),
                 ran |-> TRUE, raised |-> FALSE]
           [] out = "raise" ->
                [cache |-> c, items |-> NoItems, ran |-> TRUE, raised |-> TRUE]

\* One call in the history of CacheSpec.
Call(op, path, ran, ok, items) ==
    [op |-> op, path |-> path, ran |-> ran, ok |-> ok, items |-> items]

\* items = remote_fs.list_directory(path)
CacheList(path, out) ==
    /\ connected
    /\ Len(trace) < MaxCalls
    /\ LET r == list_directory(cache, path, out, remote[path], epoch) IN
       /\ cache' = r.cache
       /\ trace' = Append(trace, Call("list", path, r.ran, ~r.raised, r.items.names))
    /\ UNCHANGED <<treeVars, connected, current_remote_path, model_rows, remote, listers, uploads,
                   queue, pc, drop, hookRefreshes, epoch, refreshes>>

\* remote_fs.clear_cache(path); path = "" stands for None
CacheClear(path) ==
    /\ connected
    /\ Len(trace) < MaxCalls
    /\ cache' = clear_cache(cache, path)
    /\ trace' = Append(trace, Call("clear", path, FALSE, TRUE, {}))
    /\ UNCHANGED <<treeVars, connected, current_remote_path, model_rows, remote, listers, uploads,
                   queue, pc, drop, hookRefreshes, epoch, refreshes>>

\* A transfer to dest completes on the remote host (FileUploader.upload): the
\* cache is not told.
CacheUpload(dest) ==
    /\ connected
    /\ PathName(dest) \notin remote[PathParent(dest)]
    /\ remote' = RemoteCreate(remote, dest)
    /\ UNCHANGED <<treeVars, connected, current_remote_path, cache, model_rows, listers, uploads,
                   queue, pc, drop, trace, hookRefreshes, epoch, refreshes>>

CacheNext ==
    \/ \E p \in Paths, out \in ExecOutcomes : CacheList(p, out)
    \/ \E p \in Paths \cup {""} : CacheClear(p)
    \/ \E p \in Paths : CacheUpload(PathJoin(p, "c"))

CacheSpec == Init /\ [][CacheNext]_vars

(***************************************************************************)
(* The parser of list_directory: from the output of the remote ls command  *)
(* to the entries.  A text is a string; the parser works on its            *)
(* characters.                                                             *)
(***************************************************************************)
\* str.strip() and str.split(None, ...): the characters that count as white
WhiteSpace == {" ", "\n", "\t"}

RECURSIVE LStrip(_)
LStrip(s) ==
    IF Len(s) > 0 /\ SubSeq(s, 1, 1) \in WhiteSpace
    THEN LStrip(SubSeq(s, 2, Len(s))) ELSE s

RECURSIVE RStrip(_)
RStrip(s) ==
    IF Len(s) > 0 /\ SubSeq(s, Len(s), Len(s)) \in WhiteSpace
    THEN RStrip(SubSeq(s, 1, Len(s) - 1)) ELSE s

\* output.strip()
StripWs(s) == RStrip(LStrip(s))

\* s.split("\n"), cur being the line read so far
RECURSIVE SplitLines(_, _)
SplitLines(s, cur) ==
    IF Len(s) = 0 THEN <<cur>>
    ELSE IF SubSeq(s, 1, 1) = "\n"
         THEN <<cur>> \o SplitLines(SubSeq(s, 2, Len(s)), "")
         ELSE SplitLines(SubSeq(s, 2, Len(s)), cur \o SubSeq(s, 1, 1))

\* The length of the first word of s (s does not start with white space).
RECURSIVE WordLen(_)
WordLen(s) ==
    IF Len(s) = 0 \/ SubSeq(s, 1, 1) \in WhiteSpace THEN 0
    ELSE 1 + WordLen(SubSeq(s, 2, Len(s)))

\* s.split(None, maxsplit): words between runs of white space; after maxsplit
\* words the rest of the text is the last part, without its leading space.
RECURSIVE SplitWs(_, _)
SplitWs(s, maxsplit) ==
    LET t == LStrip(s) IN
    IF Len(t) = 0 THEN <<>>
    ELSE IF maxsplit = 0 THEN <<t>>
    ELSE LET n == WordLen(t) IN
         <<SubSeq(t, 1, n)>> \o SplitWs(SubSeq(t, n + 1, Len(t)), maxsplit - 1)

\* s.startswith(prefix)
StartsWith(s, prefix) ==
    Len(s) >= Len(prefix) /\ SubSeq(s, 1, Len(prefix)) = prefix

\* The first position from i on where sub occurs in s, 0 if there is none.
RECURSIVE Find(_, _, _)
Find(s, sub, i) ==
    IF i + Len(sub) - 1 > Len(s) THEN 0
    ELSE IF SubSeq(s, i, i + Len(sub) - 1) = sub THEN i
    ELSE Find(s, sub, i + 1)

\* sub in s
Contains(s, sub) == Find(s, sub, 1) > 0

\* The last position where sub occurs in s, 0 if there is none.
RECURSIVE FindLast(_, _, _)
FindLast(s, sub, i) ==
    IF i < 1 THEN 0
    ELSE IF i + Len(sub) - 1 <= Len(s) /\ SubSeq(s, i, i + Len(sub) - 1) = sub THEN i
    ELSE FindLast(s, sub, i - 1)

\* (variant: the text is split at the last separator)
SplitLast(s, sep) ==
    LET i == FindLast(s, sep, Len(s)) IN
    <<SubSeq(s, 1, i - 1), SubSeq(s, i + Len(sep), Len(s))>>

\* s.split(sep, 1), for s that contains sep
SplitFirst(s, sep) ==
    LET i == Find(s, sep, 1) IN
    <<SubSeq(s, 1, i - 1), SubSeq(s, i + Len(sep), Len(s))>>

Arrow == " -> "

\* is_dir = perms.startswith("d")
IsDir(perms) == StartsWith(perms, "d")

\* (variant: every entry is taken for a link)
IsLinkAlways(perms) == TRUE

\* is_link = perms.startswith("l")
IsLink(perms) == StartsWith(perms, "l")

\* One entry of a listing; link_target is <<>> for None and <<t>> for t.
Entry(name, display_name, is_dir, is_link, link_target, perms) ==
    [name |-> name, display_name |-> display_name, is_dir |-> is_dir,
     is_link |-> is_link, link_target |-> link_target, perms |-> perms]

\* (variant: every line that is not empty yields an entry)
ParseLineKeepsAll(line) ==
    IF line = "" THEN <<>>
    ELSE <<Entry(line, line, FALSE, FALSE, <<>>, "")>>

\* The body of the loop over the lines: the entries the line adds to items.
ParseLine(line) ==
    IF line = "" \/ StartsWith(line, "total") THEN <<>>
    ELSE LET parts == SplitWs(line, 6) IN
         IF Len(parts) < 7 THEN <<>>
         ELSE LET perms == parts[1]
                  raw_name == parts[7]
              IN  IF raw_name \in {".", ".."} THEN <<>>
                  ELSE IF IsLink(perms) /\ Contains(raw_name, Arrow)
                       THEN LET link_name == SplitFirst(raw_name, Arrow)[1]
                                link_target == SplitFirst(raw_name, Arrow)[2]
                            IN  <<Entry(link_name, link_name \o Arrow \o link_target,
                                        IsDir(perms), IsLink(perms), <<link_target>>,
                                        perms)>>
                       ELSE <<Entry(raw_name, raw_name, IsDir(perms), IsLink(perms),
                                    <<>>, perms)>>

RECURSIVE ParseLines(_)
ParseLines(lines) ==
    IF lines = <<>> THEN <<>>
    ELSE ParseLine(Head(lines)) \o ParseLines(Tail(lines))

\* list_directory from the output of the remote command to items
parse_listing(output) ==
    IF StripWs(output) = "ERROR" THEN <<>>
    ELSE ParseLines(SplitLines(StripWs(output), ""))

\* A line of ls -l: permissions, links, owner, group, size, time, name field.
EntryLine(perms, field) == perms \o " 1 u g 0 t " \o field

\* The entries a directory can have: permissions and what ls prints in the
\* name field.
LsEntries ==
    {<<"drwx", "home">>, <<"-rw-", "c">>, <<"crw-", "c">>, <<"lrwx", "c">>,
     <<"lrwx", "a -> b">>, <<"lrwx", "x -> y -> z">>, <<"-rw-", "a -> b">>,
     <<"drwx", "a -> b">>, <<"lrwx", ".. -> b">>, <<"drwx", ".">>, <<"drwx", "..">>}

\* The lines an output is made of.
Lines ==
    {"total 8", "ERROR", "", "drwx 1 u g"}
    \cup {EntryLine(e[1], e[2]) : e \in LsEntries}

\* The outputs of the remote command: up to MaxLines lines, each with its
\* newline.
RECURSIVE JoinLines(_)
JoinLines(ls) ==
    IF ls = <<>> THEN "" ELSE Head(ls) \o "\n" \o JoinLines(Tail(ls))

Outputs == UNION {[1..n -> Lines] : n \in 1..MaxLines}

\* One parse in the history of ParseSpec.
Parsed(lines, output, items) ==
    [op |-> "parse", lines |-> lines, output |-> output, items |-> items]

\* The parser is applied to the output made of `lines`.
ParseOutput(lines) ==
    /\ trace = <<>>
    /\ trace' = <<Parsed(lines, JoinLines(lines), parse_listing(JoinLines(lines)))>>
    /\ UNCHANGED <<treeVars, connected, current_remote_path, cache, model_rows, remote,
                   listers, uploads, queue, pc, drop, hookRefreshes, epoch, refreshes>>

ParseNext == \E lines \in Outputs : ParseOutput(lines)

ParseSpec == Init /\ [][ParseNext]_vars

(***************************************************************************)
(* The SSH port of a connection: connect_to_host takes the port of the     *)
(* host from the SSH config and replaces it with the port that a cloud     *)
(* instance maps to container port 2222.                                   *)
(***************************************************************************)
HostNames == {"10.0.0.1", "10.0.0.2"}     \* hostnames and public addresses
ConfiguredPort == "22"                    \* self.host_info.get("port", "22")

\* One instance in the answer of `vastai show instances --raw`; host_port is
\* the HostPort of the first entry of ports["2222/tcp"], "" when there is none.
VastInstances ==
    [actual_status : {"running", "exited"},
     public_ipaddr : HostNames,
     host_port : {"", "40001", "40002"}]

\* The answers of the command: up to MaxInstances instances.
Answers == UNION {[1..n -> VastInstances] : n \in 0..MaxInstances}

IsRunning(inst) == inst.actual_status = "running"

\* for inst in running: if inst.get("public_ipaddr") == hostname: return inst
RECURSIVE FirstAt(_, _)
FirstAt(running, hostname) ==
    IF running = <<>> THEN <<>>
    ELSE IF Head(running).public_ipaddr = hostname THEN <<Head(running)>>
    ELSE FirstAt(Tail(running), hostname)

\* _load_vast_instance_for_host(hostname): <<inst>>, or <<>> for None.
\* cli_ok: the vastai command ran and printed a JSON list.
load_vast_instance_for_host(hostname, cli_ok, instances) ==
    IF ~cli_ok THEN <<>>
    ELSE LET running == SelectSeq(instances, IsRunning) IN
         IF FirstAt(running, hostname) # <<>> THEN FirstAt(running, hostname)
         ELSE IF Len(running) = 1 THEN <<running[1]>>
         ELSE <<>>

\* _resolve_vast_port(hostname, 2222): the mapped port, "" for None
resolve_vast_port(hostname, cli_ok, instances) ==
    LET inst == load_vast_instance_for_host(hostname, cli_ok, instances) IN
    IF inst = <<>> THEN "" ELSE inst[1].host_port

\* mapped_port = _resolve_vast_port(hostname, 2222); if mapped_port: port = mapped_port
ConnectionPort(hostname, port, cli_ok, instances) ==
    LET mapped_port == resolve_vast_port(hostname, cli_ok, instances) IN
    IF mapped_port # "" THEN mapped_port ELSE port

\* One connection in the history of PortSpec.
Connected(hostname, cli_ok, instances, port) ==
    [op |-> "connect", hostname |-> hostname, cli_ok |-> cli_ok,
     instances |-> instances, port |-> port]

\* connect_to_host to the host `hostname`, up to the port of the connection
ConnectPort(hostname, cli_ok, instances) ==
    /\ trace = <<>>
    /\ trace' = <<Connected(hostname, cli_ok, instances,
                            ConnectionPort(hostname, ConfiguredPort, cli_ok, instances))>>
    /\ UNCHANGED <<treeVars, connected, current_remote_path, cache, model_rows, remote,
                   listers, uploads, queue, pc, drop, hookRefreshes, epoch, refreshes>>

PortNext ==
    \E hostname \in HostNames, cli_ok \in BOOLEAN, instances \in Answers :
        ConnectPort(hostname, cli_ok, instances)

PortSpec == Init /\ [][PortNext]_vars

(***************************************************************************)
(* on_done of ensure_folder_children on the entries of a parsed listing:   *)
(* the rows of the target item, in order.                                  *)
(***************************************************************************)
\* child = QStandardItem(icon, entry["name"]) with its path, the loaded flag
\* False and one dummy row
ChildItem(p, name) ==
    [text |-> name, path |-> PathJoin(p, name), loaded |-> FALSE, rows |-> <<"">>]

\* for entry in items: if entry.get("is_dir") or entry.get("is_link"): appendRow
RECURSIVE ChildRows(_, _)
ChildRows(p, items) ==
    IF items = <<>> THEN <<>>
    ELSE LET entry == Head(items) IN
         IF entry.is_dir \/ entry.is_link
         THEN <<ChildItem(p, entry.name)>> \o ChildRows(p, Tail(items))
         ELSE ChildRows(p, Tail(items))

\* (variant: the rows of the item are not removed first)
OnDoneKeepsRows(target_item, p, items) ==
    [target_item EXCEPT !.rows = @ \o ChildRows(p, items), !.loaded = TRUE]

\* on_done(p, items, target_item): removeRows, one appendRow per kept entry,
\* setData(True)
on_done(target_item, p, items) ==
    [target_item EXCEPT !.rows = ChildRows(p, items), !.loaded = TRUE]

\* The item on_done is called for: a new item with its dummy row, or an item
\* that an earlier on_done for the same path has loaded.
TargetItems ==
    {[text |-> "home", path |-> "/home", loaded |-> FALSE, rows |-> <<"">>],
     [text |-> "home", path |-> "/home", loaded |-> TRUE,
      rows |-> <<ChildItem("/home", "home"), ChildItem("/home", "old")>>]}

\* One load in the history of LoadSpec.
Loaded(target_item, items, after) ==
    [op |-> "load", target_item |-> target_item, items |-> items, after |-> after]

\* on_done runs on target_item with the listing that was parsed.
TreeLoad(target_item) ==
    /\ Len(trace) = 1
    /\ trace[1].op = "parse"
    /\ trace' = Append(trace, Loaded(target_item, trace[1].items,
                                     on_done(target_item, target_item.path,
                                             trace[1].items)))
    /\ UNCHANGED <<treeVars, connected, current_remote_path, cache, model_rows, remote,
                   listers, uploads, queue, pc, drop, hookRefreshes, epoch, refreshes>>

LoadNext ==
    \/ \E lines \in Outputs : ParseOutput(lines)
    \/ \E target_item \in TargetItems : TreeLoad(target_item)

LoadSpec == Init /\ [][LoadNext]_vars

(***************************************************************************)
(* Main thread: handle_rename and handle_delete.  The remote command runs  *)
(* on the main thread; worker threads go on while it runs and between the  *)
(* statements that follow it.                                              *)
(***************************************************************************)
\* what the operator types in the Rename dialog
RenameTexts == {"c", " ", "a", "a ", "b/c"}
\* the items the operator picks
EditPaths == {"/home/user", "/home/a", "/home/user/a", "/home/user/a "}

\* A host where the home directory holds a file whose name ends in a blank
\* (ls prints the name as it is, and line.split(None, 6) keeps the blank).
EditHostFiles ==
    [p \in Dirs |-> IF p = HomePath THEN {"a", "a ", "b"} ELSE FirstHostFiles[p]]

\* The connected window on that host.
EditInit == InitOn(EditHostFiles) /\ connected = TRUE
EditOutcomes == {"ok", "raise"}                \* results of one mv or rm command

\* The item full_path is in the flat view or in the folder tree.
Shown(full_path) ==
    \/ /\ PathParent(full_path) = current_remote_path
       /\ PathName(full_path) \in model_rows
    \/ /\ full_path \in Dirs
       /\ folder_model[full_path].alive

\* One call in the history of EditSpec.  result: "declined" (no command was
\* issued), "failed" (the command raised and the message box was shown),
\* "done", or "escaped" (an exception left the handler).
Edited(op, path, result, refreshed) ==
    [op |-> op, path |-> path, result |-> result, refreshed |-> refreshed]

\* Path.with_name(new_name) raises ValueError
InvalidName(new_name) == Contains(new_name, "/") \/ new_name = "."

\* if not ok or not new_name.strip() or new_name.strip() == current_name: return
RenameDeclined(ok, text, current_name) ==
    ~ok \/ Strip(text) = "" \/ Strip(text) = current_name

\* handle_rename(full_path, current_name) up to its remote command; ok, text:
\* the answer to the Rename dialog
HandleRename(full_path, text, ok) ==
    /\ pc = "idle"
    /\ Len(trace) < MaxEdits
    /\ Shown(full_path)
    /\ LET current_name == PathName(full_path)
           new_name == Strip(text)
           new_path == PathJoin(PathParent(full_path), new_name)
       IN  IF ~connected \/ RenameDeclined(ok, text, current_name)
           THEN /\ trace' = Append(trace, Edited("rename", full_path, "declined", FALSE))
                /\ UNCHANGED <<pc, edit>>
           ELSE IF InvalidName(new_name)
           THEN /\ trace' = Append(trace, Edited("rename", full_path, "escaped", FALSE))
                /\ UNCHANGED <<pc, edit>>
           ELSE /\ (full_path \in Dirs) = (new_path \in Dirs)
                /\ edit' = [op |-> "rename", path |-> full_path, new_path |-> new_path,
                            parent |-> PathParent(full_path), text |-> text, ok |-> ok]
                /\ pc' = "edit_exec"
                /\ trace' = trace
    /\ UNCHANGED <<last_loaded, current_index, log_box, fs, retired, folder_model,
                   folder_workers, refresh_expand_flag,
                   gestures, connected, current_remote_path, cache, model_rows, remote,
                   listers, uploads, queue, drop, hookRefreshes, epoch, refreshes>>

\* handle_delete(full_path) up to its remote command; yes: the answer to the
\* Delete question
HandleDelete(full_path, yes) ==
    /\ pc = "idle"
    /\ Len(trace) < MaxEdits
    /\ Shown(full_path)
    /\ IF ~connected \/ ~yes
       THEN /\ trace' = Append(trace, Edited("delete", full_path, "declined", FALSE))
            /\ UNCHANGED <<pc, edit>>
       ELSE /\ edit' = [op |-> "delete", path |-> full_path, new_path |-> "",
                        parent |-> PathParent(full_path), text |-> "", ok |-> yes]
            /\ pc' = "edit_exec"
            /\ trace' = trace
    /\ UNCHANGED <<last_loaded, current_index, log_box, fs, retired, folder_model,
                   folder_workers, refresh_expand_flag,
                   gestures, connected, current_remote_path, cache, model_rows, remote,
                   listers, uploads, queue, drop, hookRefreshes, epoch, refreshes>>

\* mv old new
RemoteMove(r, old, new) == RemoteCreate(RemoteRemove(r, old), new)

\* if self.remote_fs: self.remote_fs.clear_cache(str(Path(full_path).parent))
EvictParent(c, parent) == clear_cache(c, parent)

\* except Exception as e: the cache is as it was
OnCommandFailed(c, parent) == c

\* remote_fs.rename_path / delete_path returns or raises; on success the
\* parent is evicted
EditExec(out) ==
    /\ pc = "edit_exec"
    /\ (out = "ok" /\ edit.op = "rename") => PathName(edit.path) \in remote[edit.parent]
    /\ IF out = "ok"
       THEN /\ remote' = IF edit.op = "rename"
                         THEN RemoteMove(remote, edit.path, edit.new_path)
                         ELSE RemoteRemove(remote, edit.path)
            /\ epoch' = epoch + 1
            /\ cache' = EvictParent(cache, edit.parent)
            /\ pc' = "edit_refresh"
            /\ trace' = trace
       ELSE /\ trace' = Append(trace, Edited(edit.op, edit.path, "failed", FALSE))
            /\ cache' = OnCommandFailed(cache, edit.parent)
            /\ pc' = "idle"
            /\ UNCHANGED <<remote, epoch>>
    /\ UNCHANGED <<treeVars, connected, current_remote_path, model_rows, listers,
                   uploads, queue, drop, hookRefreshes, refreshes>>

\* self.refresh_remote_view(force=True), and the handler returns
EditRefresh ==
    /\ pc = "edit_refresh"
    /\ refresh_remote_view(current_remote_path, TRUE, TRUE)
    /\ trace' = Append(trace, Edited(edit.op, edit.path, "done", TRUE))
    /\ pc' = "idle"
    /\ UNCHANGED <<last_loaded, current_index, log_box, edit, fs, retired, folder_model,
                   folder_workers, gestures, connected,
                   current_remote_path, remote, uploads, queue, drop, hookRefreshes,
                   epoch, refreshes>>

EditNext ==
    \/ \E p \in EditPaths, t \in RenameTexts, ok \in BOOLEAN : HandleRename(p, t, ok)
    \/ \E p \in EditPaths, yes \in BOOLEAN : HandleDelete(p, yes)
    \/ \E out \in EditOutcomes : EditExec(out)
    \/ EditRefresh
    \/ \E p \in Paths : NavigateToPath(p)
    \/ \E k \in 1..Len(listers) : ListCheckCache(k)
    \/ \E k \in 1..Len(listers), out \in ExecOutcomes : ListExec(k, out)
    \/ \E k \in 1..Len(listers) : ListStore(k)
    \/ OnRemoteLoaded
    \/ OnRemoteLoadFailed

EditSpec == EditInit /\ [][EditNext]_vars

(***************************************************************************)
(* Properties of handle_drop, stated on its history.                       *)
(***************************************************************************)
Events == 1..Len(trace)
UploadEvents(j) == {k \in Events : trace[k].op = "upload" /\ trace[k].item = j}
DeleteEvents(j) == {k \in Events : trace[k].op = "delete" /\ trace[k].item = j}
AnswerEvents(j) == {k \in Events : trace[k].op = "answer" /\ trace[k].item = j}
Cancelled(j) == \E k \in AnswerEvents(j) : ~trace[k].ok

\* The names occupied when event k happened: the entries of the listing the
\* drop obtained, and the names of the transfers dispatched before k.
Known(k) ==
    {n \in drop.listed : n # ""}
        \cup {trace[m].name : m \in {x \in 1..(k - 1) : trace[x].op = "upload"}}

\* The names occupied when item j's turn came.
KnownAtTurn(j) ==
    {n \in drop.listed : n # ""}
        \cup {trace[m].name : m \in {x \in Events : trace[x].op = "upload"
                                                    /\ trace[x].item < j}}

\* Event k is the answer (ok, stripped text) to a prompt about trace[k].name.
IsAnswer(k) == trace[k].op = "answer" /\ trace[k].ok
IsRename(k) == IsAnswer(k) /\ trace[k].arg \notin {"", trace[k].name}
BatchReturned == pc = "idle" /\ epoch > 0 /\ connected
ItemSettled(j) == UploadEvents(j) # {} \/ Cancelled(j)

\* After event k, an answer that does not settle the item, the same item is
\* prompted about `name`.
PromptedNext(k, name) ==
    IF k = Len(trace)
    THEN pc = "drop_prompt" /\ drop.i = trace[k].item /\ drop.target_name = name
    ELSE /\ trace[k + 1].op = "answer"
         /\ trace[k + 1].item = trace[k].item
         /\ trace[k + 1].name = name

\* C1: no transfer goes to a name that was in the target directory when the
\* drop began, unless the operator was prompted about that name and answered
\* with the same name -- whatever became of the drop's listing.
C1_NoSilentOverwrite ==
    \A k \in Events :
        (/\ trace[k].op = "upload"
         /\ PathParent(trace[k].arg) = drop.target
         /\ PathName(trace[k].arg) \in drop.atDrop)
        => \E m \in 1..(k - 1) :
              /\ IsAnswer(m)
              /\ trace[m].item = trace[k].item
              /\ trace[m].name = PathName(trace[k].arg)
              /\ trace[m].arg = trace[m].name

\* C2: an answer with a different, unoccupied name dispatches exactly one
\* transfer of the item to target/newName and no delete; an item whose base
\* name is not occupied is dispatched to target/baseName without any prompt.
C2_RenameDispatch ==
    /\ \A k \in Events :
          (IsRename(k) /\ trace[k].arg \notin Known(k))
          => /\ k < Len(trace)
             /\ trace[k + 1] = Ev("upload", trace[k].item, trace[k].arg,
                                  PathJoin(drop.target, trace[k].arg), FALSE)
             /\ Cardinality(UploadEvents(trace[k].item)) = 1
             /\ DeleteEvents(trace[k].item) = {}
    /\ \A j \in 1..(drop.i - 1) :
          LET base == PathName(drop.paths[j]) IN
          base \notin KnownAtTurn(j)
          => /\ \E k \in Events :
                   /\ UploadEvents(j) = {k}
                   /\ trace[k] = Ev("upload", j, base, PathJoin(drop.target, base), FALSE)
             /\ AnswerEvents(j) = {}
             /\ DeleteEvents(j) = {}

C2_Witness ==
    /\ BatchReturned
    /\ \E k \in Events : IsRename(k) /\ trace[k].arg \notin Known(k)
    /\ \E j \in 1..Len(drop.paths) :
          /\ PathName(drop.paths[j]) \notin KnownAtTurn(j)
          /\ UploadEvents(j) # {}

\* The name the answer k repeats is occupied by an entry of the remote listing
\* (not by the placeholder of an earlier transfer of the batch).
RemoteEntryOccupies(k) ==
    /\ trace[k].name \in drop.listed
    /\ \A m \in 1..(k - 1) : trace[m].op = "upload" => trace[m].name # trace[k].name

\* C3: an answer equal to the name in conflict, occupied by a remote entry, is
\* followed by exactly one delete of target/name and then by exactly one
\* transfer to target/name, in this order.
C3_OverwriteDeletesFirst ==
    \A k \in Events :
        (IsAnswer(k) /\ trace[k].arg = trace[k].name /\ RemoteEntryOccupies(k))
        => LET dest == PathJoin(drop.target, trace[k].name) IN
           /\ k + 2 <= Len(trace)
           /\ trace[k + 1].op = "delete"
           /\ trace[k + 1].item = trace[k].item
           /\ trace[k + 1].arg = dest
           /\ trace[k + 2] = Ev("upload", trace[k].item, trace[k].name, dest, TRUE)
           /\ Cardinality(DeleteEvents(trace[k].item)) = 1
           /\ Cardinality(UploadEvents(trace[k].item)) = 1

C3_Witness ==
    \E k \in Events :
        /\ IsAnswer(k) /\ trace[k].arg = trace[k].name /\ RemoteEntryOccupies(k)
        /\ trace[k + 1].op = "delete" /\ trace[k + 1].ok
        /\ \E u \in 1..Len(uploads) : uploads[u].dest = trace[k + 1].arg

\* C4: a cancelled prompt leaves the item without transfer and without delete,
\* and the loop goes on: when the handler returns every item has been
\* transferred or cancelled.
C4_CancelSkipsItem ==
    /\ \A k \in Events :
          (trace[k].op = "answer" /\ ~trace[k].ok)
          => /\ UploadEvents(trace[k].item) = {}
             /\ DeleteEvents(trace[k].item) = {}
             /\ drop.i > trace[k].item
             /\ \A m \in (k + 1)..Len(trace) : trace[m].item > trace[k].item
    /\ BatchReturned => \A j \in 1..Len(drop.paths) : ItemSettled(j)

C4_Witness ==
    /\ BatchReturned
    /\ \E k \in Events :
          /\ trace[k].op = "answer" /\ ~trace[k].ok
          /\ \E j \in (trace[k].item + 1)..Len(drop.paths) : UploadEvents(j) # {}

C6_OccupiedNameReprompts ==
    /\ \A k \in Events :
          (IsRename(k) /\ trace[k].arg \in Known(k)) => PromptedNext(k, trace[k].arg)
    /\ \A k \in Events :
          (trace[k].op = "upload" /\ ~trace[k].ok) => trace[k].name \notin Known(k)

C6_Witness ==
    \E k \in Events :
        /\ IsRename(k)
        /\ trace[k].arg \in Known(k)
        /\ trace[k].arg \notin drop.listed
        /\ pc = "drop_prompt"
        /\ drop.target_name = trace[k].arg

\* C7: every dispatched name is in the known-entries set, and two transfers of
\* one batch go to the same remote destination only if the later one is an
\* explicit overwrite chosen in a prompt.
C7_DistinctDestinations ==
    /\ \A k \in Events : trace[k].op = "upload" => trace[k].name \in drop.entries_by_name
    /\ \A k, m \in Events :
          (/\ k < m
           /\ trace[k].op = "upload"
           /\ trace[m].op = "upload"
           /\ trace[k].arg = trace[m].arg)
          => trace[m].ok

\* C8: the entries a drop resolves conflicts against come from a remote
\* command that ran after the drop began.
C8_DropListingIsFresh ==
    (pc \in {"drop_loop", "drop_prompt"} /\ drop.src # -1) => drop.src = epoch

\* C9: a failed delete before an overwrite is followed by the transfer to the
\* same name, and the rest of the batch is still processed.
C9_FailedDeleteStillUploads ==
    \A k \in Events :
        (trace[k].op = "delete" /\ ~trace[k].ok)
        => /\ k < Len(trace)
           /\ trace[k + 1] = Ev("upload", trace[k].item, trace[k].name, trace[k].arg, TRUE)
           /\ BatchReturned => \A j \in 1..Len(drop.paths) : ItemSettled(j)

C9_Witness ==
    /\ BatchReturned
    /\ \E k \in Events :
          /\ trace[k].op = "delete" /\ ~trace[k].ok
          /\ \E j \in (trace[k].item + 1)..Len(drop.paths) : UploadEvents(j) # {}

\* C10: when the target is the displayed directory and a transfer was
\* dispatched, then once the handler has returned and every worker has
\* finished and been handled, a forced refresh of the target has been run.
C10_RefreshAfterBatch ==
    (/\ BatchReturned
     /\ drop.refresh_after
     /\ \E k \in Events : trace[k].op = "upload"
     /\ uploads = <<>> /\ listers = <<>> /\ queue = <<>>)
    => \E h \in 1..Len(hookRefreshes) :
          /\ hookRefreshes[h].batch = epoch
          /\ hookRefreshes[h].path = drop.target

\* C11: the forced refresh connected to a batch runs only when the handler has
\* returned, a transfer has been dispatched, and no transfer of the batch is
\* still running.
C11_RefreshAfterAllTransfers ==
    [][Len(hookRefreshes') > Len(hookRefreshes)
       => /\ pc = "idle"
          /\ \E k \in Events : trace[k].op = "upload"
          /\ uploads = <<>>]_vars

\* The list call after call k for the same path, when no clear_cache lies
\* between the two.
NextListOf(k, m) ==
    /\ k < m
    /\ trace[k].op = "list" /\ trace[m].op = "list"
    /\ trace[k].path = trace[m].path
    /\ \A x \in (k + 1)..(m - 1) :
          trace[x].op = "list" /\ trace[x].path # trace[k].path

\* C12: two consecutive list(path) calls that return, with no invalidation
\* between them, issue at most one remote command and return the same entries,
\* whatever the command's output was.
C12_CacheIdempotence ==
    \A k, m \in 1..Len(trace) :
        (NextListOf(k, m) /\ trace[k].ok /\ trace[m].ok)
        => /\ ~(trace[k].ran /\ trace[m].ran)
           /\ trace[k].items = trace[m].items

\* C13: the list_directory(path) that follows clear_cache(path) issues the
\* remote command: it is never answered from the cache.
C13_InvalidateThenListFetches ==
    [][pc = "drop_check" => pc' \in {"drop_check", "drop_exec"}]_vars

\* C14: once a path has been invalidated, its cache entry never holds the
\* result of a remote command that ran before the invalidation.
C14_LateResultDiscarded ==
    (epoch > 0 /\ connected /\ drop.target \in DOMAIN cache)
    => cache[drop.target].epoch = epoch

\* C15: the arrival of a listing of a path that is not the current path changes
\* neither the current path nor the entries shown in the flat view.
C15_StaleViewDiscarded ==
    [][(/\ queue # <<>>
        /\ Head(queue).kind = "loaded"
        /\ queue' = Tail(queue)
        /\ Head(queue).path # current_remote_path)
       => /\ current_remote_path' = current_remote_path
          /\ model_rows' = model_rows]_vars

\* C16: after a host switch every entry of the active cache and every entry
\* of the flat view is an entry of the host that is active; a result fetched
\* from the previous host is in neither.
C16_HostSwitchResets ==
    (connected /\ fs >= 2) =>
        /\ \A p \in DOMAIN cache : cache[p].names \subseteq HostFiles(fs)[p]
        /\ model_rows \subseteq HostFiles(fs)[current_remote_path]

\* The step collapses the item of d.
CollapseStep(d) ==
    /\ folder_model[d].alive /\ folder_model[d].expanded
    /\ folder_model'[d].alive /\ folder_model'[d].item = folder_model[d].item
    /\ ~folder_model'[d].expanded

\* The step expands the item of d.
ExpandStep(d) ==
    /\ folder_model[d].alive /\ ~folder_model[d].expanded
    /\ folder_model'[d].alive /\ folder_model'[d].item = folder_model[d].item
    /\ folder_model'[d].expanded

\* The step starts a listing of d for the tree.
StartsTreeFetch(d) ==
    /\ Len(listers') > Len(listers)
    /\ \E k \in (Len(listers) + 1)..Len(listers') :
          listers'[k].owner = "tree" /\ listers'[k].path = d

\* C17: collapsing a loaded node discards its children and makes it unloaded,
\* and expanding a collapsed node that is not being loaded starts a new
\* listing of it.
C17_CollapseThenExpandRefetches ==
    [][\A d \in Dirs :
          /\ (CollapseStep(d) /\ folder_model[d].loaded) =>
                 (~folder_model'[d].loaded /\ folder_model'[d].rows = <<"">>)
          /\ (ExpandStep(d) /\ d \notin folder_workers) => StartsTreeFetch(d)]_vars

\* A listing of d started for the item `item` has not delivered its result.
Outstanding(d, item) ==
    \/ \E k \in 1..Len(listers) :
          /\ listers[k].owner = "tree" /\ listers[k].path = d
          /\ listers[k].item = item /\ listers[k].st # "finish"
    \/ \E k \in 1..Len(queue) :
          /\ queue[k].kind \in {"tree_done", "tree_failed"}
          /\ queue[k].path = d /\ queue[k].item = item

\* The node of d is being loaded.
Loading(d) == folder_model[d].alive /\ Outstanding(d, folder_model[d].item)

\* The step keeps the item of d.
ItemKept(d) ==
    /\ folder_model[d].alive /\ folder_model'[d].alive
    /\ folder_model'[d].item = folder_model[d].item

\* The step delivers the result of a listing to the tree.
TreeDelivery ==
    /\ queue # <<>>
    /\ Head(queue).kind \in {"tree_done", "tree_failed"}
    /\ queue' = Tail(queue)

\* C18: a handler that asks for the children of a node that is loaded or
\* being loaded starts no listing of it and leaves its rows and its loaded
\* flag as they are.
C18_ExpandNoOpWhenLoadingOrLoaded ==
    [][\A d \in Dirs :
          (ItemKept(d) /\ (folder_model[d].loaded \/ Loading(d)) /\ ~TreeDelivery) =>
              /\ ~StartsTreeFetch(d)
              /\ folder_model'[d].loaded = folder_model[d].loaded
              /\ folder_model'[d].rows = folder_model[d].rows]_vars

\* The number of listings of d started for the tree that have not delivered
\* their result.
TreeFetches(d) ==
    Cardinality({k \in 1..Len(listers) :
                    /\ listers[k].owner = "tree" /\ listers[k].path = d
                    /\ listers[k].st # "finish"})
    + Cardinality({k \in 1..Len(queue) :
                    /\ queue[k].kind \in {"tree_done", "tree_failed"}
                    /\ queue[k].path = d})

\* C19: at most one listing started for the tree is outstanding for a path,
\* and the path has its marker in folder_workers exactly while one is.
C19_OneTreeFetchPerPath ==
    \A d \in Dirs :
        /\ TreeFetches(d) <= 1
        /\ d \in folder_workers <=> TreeFetches(d) = 1

\* The step delivers the failure of a listing of d to the item it was
\* started for.
FailureDelivered(d) ==
    /\ queue # <<>>
    /\ Head(queue).kind = "tree_failed"
    /\ Head(queue).path = d
    /\ queue' = Tail(queue)
    /\ ItemLives(folder_model, d, Head(queue).item)

\* The window after the step would start a listing when the node of d is
\* expanded.
ExpandWouldFetch(d) ==
    LET T == TreeState(folder_model', folder_workers', listers', connected', fs')
    IN  Len(ensure_folder_children(T, d).ls) = Len(listers') + 1

\* C20: when the failure of a listing reaches its node, the node is unloaded
\* afterwards: loaded flag false, no marker for its path, the dummy row in
\* place; an expand of the node then starts a new listing.
C20_FailedFetchReturnsToUnloaded ==
    [][\A d \in Dirs :
          FailureDelivered(d) =>
              /\ ~folder_model'[d].loaded
              /\ d \notin folder_workers'
              /\ folder_model'[d].rows = <<"">>
              /\ connected' => ExpandWouldFetch(d)]_vars

\* The node of d has its loaded flag set by the step.
BecomesLoaded(d) ==
    /\ folder_model'[d].alive /\ folder_model'[d].loaded
    /\ ~(ItemKept(d) /\ folder_model[d].loaded)

\* The step is on_done of a listing of d for the item d has.
DoneDelivered(d) ==
    /\ queue # <<>>
    /\ Head(queue).kind = "tree_done"
    /\ Head(queue).path = d
    /\ queue' = Tail(queue)
    /\ ItemLives(folder_model, d, Head(queue).item)

\* A node that is not loaded has the dummy row and no other row.
PlaceholderOnly(fm) ==
    \A d \in Dirs : (fm[d].alive /\ ~fm[d].loaded) => fm[d].rows = <<"">>

\* C21: a node whose loaded flag is false has exactly the placeholder row, and
\* the loaded flag of a node becomes true only in on_done of a listing of the
\* node's path.
C21_TreeNodeInvariant ==
    [][/\ PlaceholderOnly(folder_model)
       /\ PlaceholderOnly(folder_model')
       /\ \A d \in Dirs : BecomesLoaded(d) => DoneDelivered(d)]_vars

\* C21: after a reconnection on_done has loaded the new root and made a
\* child that is not loaded.
C21_Witness ==
    /\ fs >= 2
    /\ folder_model["/"].alive /\ folder_model["/"].loaded
    /\ folder_model["/home"].alive /\ ~folder_model["/home"].loaded

\* The step stores or evicts a key of the cache of the window.
CacheWritten ==
    \/ DOMAIN cache' # DOMAIN cache
    \/ \E p \in DOMAIN cache : cache'[p] # cache[p]

\* The step is made by a worker thread: only run() of a worker emits a signal.
WorkerThreadStep == Len(queue') > Len(queue)

\* C22: the cache is written only by handlers and callbacks on the main
\* thread; no step of a worker thread stores or evicts a key.
C22_CacheWrittenOnMainThreadOnly ==
    [][CacheWritten => ~WorkerThreadStep]_vars

\* The step is a call of clear_cache in the history of CacheSpec.
ClearCalled ==
    /\ Len(trace') = Len(trace) + 1
    /\ trace'[Len(trace')].op = "clear"

\* C24: clear_cache(P) with a non-empty P removes the key P and leaves every
\* other key with its entry (nothing changes when P is not cached);
\* clear_cache() leaves the cache empty.
C24_ClearCacheFrame ==
    [][ClearCalled =>
          LET p == trace'[Len(trace')].path IN
          IF p # ""
          THEN /\ DOMAIN cache' = (DOMAIN cache) \ {p}
               /\ \A q \in DOMAIN cache' : cache'[q] = cache[q]
          ELSE DOMAIN cache' = {}]_vars

\* C24: /home was listed and cached, then clear_cache("/home") was called and
\* the entry of /home/user is still there.
C24_Witness ==
    /\ Len(trace) = 2
    /\ trace[1].op = "list" /\ trace[1].path = "/home" /\ trace[1].items # {}
    /\ trace[2].op = "clear" /\ trace[2].path = "/home"
    /\ DOMAIN cache = {HomePath}

\* The output of the parse has only "total" lines and sentinel lines.
OnlyTotalAndSentinel(lines) ==
    \A i \in 1..Len(lines) : lines[i] \in {"total 8", "ERROR"}

\* C26: an output made only of a "total N" line and/or the error sentinel
\* line parses to the empty sequence.
C26_TotalAndSentinelParseEmpty ==
    \A k \in 1..Len(trace) :
        (trace[k].op = "parse" /\ OnlyTotalAndSentinel(trace[k].lines)) =>
            trace[k].items = <<>>

\* C26: the output "total 8", "ERROR" was parsed.
C26_Witness ==
    /\ Len(trace) = 1
    /\ trace[1].op = "parse"
    /\ trace[1].lines = <<"total 8", "ERROR">>

\* Texts that a link name or a link target can be.
NameTexts == {"a", "b", "x", "z", "x -> y", "y -> z", ".."}

\* The parse k has the line `line` and an entry with this name, target and
\* display name for it.
LineGives(k, line, name, link_target, display_name) ==
    (\E i \in 1..Len(trace[k].lines) : trace[k].lines[i] = line) =>
        \E j \in 1..Len(trace[k].items) :
            /\ trace[k].items[j].name = name
            /\ trace[k].items[j].link_target = link_target
            /\ trace[k].items[j].display_name = display_name

\* An entry that is not a link keeps its name field whole ("." and ".." are
\* not entries).
NonLinksKeepField(k) ==
    \A e \in LsEntries :
        (~StartsWith(e[1], "l") /\ e[2] \notin {".", ".."}) =>
            LineGives(k, EntryLine(e[1], e[2]), e[2], <<>>, e[2])

\* C27 as stated: for every a and b, the link line with the name field
\* "a -> b" parses to name a, link_target b and display_name "a -> b"; an
\* entry that is not a link keeps its name field whole.
C27_SymlinkRoundTripAnySplit ==
    \A k \in 1..Len(trace) :
        trace[k].op = "parse" =>
            /\ \A a \in NameTexts, b \in NameTexts :
                  LineGives(k, EntryLine("lrwx", a \o Arrow \o b),
                            a, <<b>>, a \o Arrow \o b)
            /\ NonLinksKeepField(k)

\* C27 amended: the name field of a link is split at its first " -> ": for
\* every a without " -> " and every b the link line with the name field
\* "a -> b" parses to name a, link_target b and display_name "a -> b"; an
\* entry that is not a link keeps its name field whole.
C27_SymlinkSplitAtFirstArrow ==
    \A k \in 1..Len(trace) :
        trace[k].op = "parse" =>
            /\ \A a \in NameTexts, b \in NameTexts :
                  ~Contains(a, Arrow) =>
                      LineGives(k, EntryLine("lrwx", a \o Arrow \o b),
                                a, <<b>>, a \o Arrow \o b)
            /\ NonLinksKeepField(k)

\* C27: a link line with two arrows and a file line with an arrow were parsed.
C27_Witness ==
    /\ Len(trace) = 1
    /\ trace[1].op = "parse"
    /\ trace[1].lines = <<EntryLine("lrwx", "x -> y -> z"), EntryLine("-rw-", "a -> b")>>
    /\ Len(trace[1].items) = 2

\* The kind of an entry whose permissions start with the character c: the
\* flags is_dir and is_link.
KindOf(c) == [is_dir |-> c = "d", is_link |-> c = "l"]

\* C28: the kind of every entry is given by the first character of its
\* permissions (d: directory, l: link, anything else: file), and no entry is
\* both a directory and a link.
C28_KindFromFirstPermission ==
    \A k \in 1..Len(trace) :
        trace[k].op = "parse" =>
            \A j \in 1..Len(trace[k].items) :
                LET e == trace[k].items[j] IN
                /\ e.is_dir = KindOf(SubSeq(e.perms, 1, 1)).is_dir
                /\ e.is_link = KindOf(SubSeq(e.perms, 1, 1)).is_link
                /\ ~(e.is_dir /\ e.is_link)

\* C28: a directory and a character device were parsed into two entries.
C28_Witness ==
    /\ Len(trace) = 1
    /\ trace[1].op = "parse"
    /\ trace[1].lines = <<EntryLine("drwx", "home"), EntryLine("crw-", "c")>>
    /\ Len(trace[1].items) = 2

\* C29: no entry of a parsed listing has the name "." or "..".
C29_NoDotEntries ==
    \A k \in 1..Len(trace) :
        trace[k].op = "parse" =>
            \A j \in 1..Len(trace[k].items) :
                trace[k].items[j].name \notin {".", ".."}

\* A handle_rename or handle_delete has succeeded and returned.
EditSucceeded ==
    /\ pc = "idle"
    /\ trace # <<>>
    /\ trace[Len(trace)].op \in {"rename", "delete"}
    /\ trace[Len(trace)].result = "done"

\* C23: once handle_rename or handle_delete has succeeded on P, the listing
\* of parent(P) that was cached before the remote change is gone: the cache
\* has no entry for parent(P), or one fetched by a command that ran after the
\* change, so that a list of parent(P) is answered from the host as it is now.
C23_ParentEvictedAfterEdit ==
    (EditSucceeded /\ edit.parent \in DOMAIN cache) =>
        cache[edit.parent].epoch >= epoch

\* The names shown in the flat view that are directories.
FlatDirs(p) == {n \in model_rows : PathJoin(p, n) \in Dirs}

\* The texts of the rows of a node.
RowsOf(d) == {folder_model[d].rows[i] : i \in 1..Len(folder_model[d].rows)}

\* Every refresh has completed: no worker runs, no signal waits.
Quiet == pc = "idle" /\ listers = <<>> /\ queue = <<>> /\ folder_workers = {}

\* The flat view shows a fresh listing of directory p.
FlatFresh(p) == current_remote_path = p /\ model_rows = remote[p]

\* C25: after a successful rename or delete of a directory whose parent node
\* is loaded in the tree, once all refreshes have completed and the flat view
\* shows the fresh listing of the parent, the children of the parent node in
\* the tree are the directories of that listing.
C25_TreeFollowsRemoteChange ==
    (/\ Quiet
     /\ EditSucceeded
     /\ edit.path \in Dirs
     /\ FlatFresh(edit.parent)
     /\ folder_model[edit.parent].alive
     /\ folder_model[edit.parent].loaded) =>
        RowsOf(edit.parent) = FlatDirs(edit.parent)

\* A remote rename or delete command is about to be issued.
CommandIssued == pc = "edit_exec"

\* The step in which the remote rename or delete command fails.
CommandFails == pc = "edit_exec" /\ pc' = "idle"

\* On a failing command the handler reports the failure and returns; the
\* cache keeps its keys and no listing is started.
FailureIsReportedOnly ==
    CommandFails =>
        /\ trace' = Append(trace, Edited(edit.op, edit.path, "failed", FALSE))
        /\ DOMAIN cache' = DOMAIN cache
        /\ listers' = listers
        /\ queue' = queue
        /\ remote' = remote

\* A command is issued only for an accepted dialog, and a rename only for a
\* name that is neither blank nor the name the item has.
IssuedOnlyForNewName ==
    CommandIssued =>
        /\ edit.ok
        /\ edit.op = "rename" =>
            /\ Strip(edit.text) # ""
            /\ edit.text # PathName(edit.path)

\* C30 (the failing command): a failing remote rename or delete is reported,
\* evicts no cache key, starts no refresh and raises nothing out of the handler.
C30_FailedCommandIsReportedOnly == [][FailureIsReportedOnly]_vars

\* C30: a failing remote rename or delete is reported, evicts no cache key,
\* starts no refresh and raises nothing out of the handler; and a cancelled,
\* blank or unchanged rename name and a declined delete issue no remote command.
C30_FailedOrDeclinedEditIssuesNothing ==
    [][FailureIsReportedOnly]_vars /\ []IssuedOnlyForNewName

\* The step delivers the failed signal of a tree worker to on_fail.
TreeFailDelivered ==
    /\ queue # <<>>
    /\ Head(queue).kind = "tree_failed"
    /\ queue' = Tail(queue)

\* C31: when the listing started by a tree expand fails, the failure is
\* reported to the operator: after on_fail the log holds a line for it.
C31_TreeFetchFailureReported == [][TreeFailDelivered => log_box']_vars

\* The directory named by the first n segments of path.
PrefixOf(path, n) == PathStr(SubSeq(Parts(path, ""), 1, n))

\* The first n segments of path are a chain of materialized children below
\* the root of the tree.
Materialized(path, n) ==
    /\ folder_model["/"].alive
    /\ \A i \in 1..n :
        /\ PrefixOf(path, i - 1) \in Dirs
        /\ Parts(path, "")[i] \in RowsOf(PrefixOf(path, i - 1))

\* The number of segments of path before the first that is not a
\* materialized child.
DepthReached(path) ==
    CHOOSE n \in 0..Len(Parts(path, "")) :
        /\ Materialized(path, n)
        /\ n < Len(Parts(path, "")) => ~Materialized(path, n + 1)

\* The nodes on the way of sync_folder_selection(path).
OnTheWay(path) == {PrefixOf(path, n) : n \in 0..DepthReached(path)}

\* The listing workers the step has started.
StartedWorkers == {listers'[k] : k \in (Len(listers) + 1)..Len(listers')}

\* The step is on_remote_loaded, which calls sync_folder_selection with the
\* loaded path and the expand flag of the refresh.
SyncCalled ==
    /\ queue # <<>>
    /\ Head(queue).kind = "loaded"
    /\ queue' = Tail(queue)
    /\ folder_model["/"].alive

FolderEntries(items) == {j \in 1..Len(items) : items[j].is_dir \/ items[j].is_link}

\* The position of the i-th such entry.
NthFolderEntry(items, i) ==
    CHOOSE j \in FolderEntries(items) :
        Cardinality({k \in FolderEntries(items) : k < j}) = i - 1

\* C33: after on_done the children of the node are one node per directory or
\* link entry of the listing and nothing else, in the order of the listing,
\* each with its path, not loaded and with one placeholder row.
C33_ChildrenAreFolderEntriesInOrder ==
    \A k \in 1..Len(trace) :
        trace[k].op = "load" =>
            LET items == trace[k].items
                rows == trace[k].after.rows
            IN  /\ Len(rows) = Cardinality(FolderEntries(items))
                /\ \A i \in 1..Len(rows) :
                    /\ rows[i].text = items[NthFolderEntry(items, i)].name
                    /\ rows[i].path =
                        PathJoin(trace[k].target_item.path, rows[i].text)
                    /\ ~rows[i].loaded
                    /\ rows[i].rows = <<"">>

\* C33: a node that had two children from an earlier load was loaded again
\* with a listing of a file and a link, and has the link as its only child.
C33_Witness ==
    /\ Len(trace) = 2
    /\ trace[2].op = "load"
    /\ Len(trace[2].target_item.rows) = 2
    /\ trace[1].lines = <<EntryLine("-rw-", "c"), EntryLine("lrwx", "a -> b")>>
    /\ Len(trace[2].after.rows) = 1
    /\ trace[2].after.rows[1].text = "a"

\* C34: during a drop a remote delete is issued only for a name that was in
\* the listing the drop fetched, never for a name that only an earlier item of
\* the batch has taken.
C34_DeleteOnlyListedNames ==
    \A k \in Events :
        trace[k].op = "delete" => trace[k].name \in drop.listed

\* The handler of the drop has returned and every transfer of the batch has
\* finished and been handled; no listing is running.
BatchFinished ==
    /\ BatchReturned
    /\ uploads = <<>>
    /\ listers = <<>>
    /\ queue = <<>>

\* The names the transfers of the batch have created in the target.
UploadedNames == remote[drop.target] \ drop.atDrop

\* No listing has been started since the drop began: an entry the cache has
\* for the target is the one the list_directory call of the drop stored,
\* before the transfers were dispatched.
NoListingSinceDrop == hookRefreshes = <<>>

\* C35: after a drop batch onto a target has finished all its transfers, the
\* cache holds no listing of the target that was fetched before the transfers
\* were dispatched, whether or not the target is displayed, so that no listing
\* served from the cache omits the uploaded names.
C35_NoStaleTargetEntryAfterBatch ==
    (BatchFinished /\ NoListingSinceDrop /\ drop.target \in DOMAIN cache) =>
        UploadedNames \subseteq cache[drop.target].names

\* The step is the beginning of handle_drop on a connected window.
DropBegins == pc = "idle" /\ pc' = "drop_check"

\* C36: a drop onto a target evicts at most the cache key of the target; the
\* entries of all other paths are as they were, whether or not the target is
\* the displayed directory.
C36_DropEvictsTargetOnly ==
    [][DropBegins =>
        \A p \in DOMAIN cache :
            p # drop'.target => (p \in DOMAIN cache' /\ cache'[p] = cache[p])]_vars

\* Path q is P or lies below P.
AtOrBelow(q, P) == IsPrefix(Parts(P, ""), Parts(q, ""))

\* C37: after a successful delete or rename of a directory P the cache holds
\* no listing keyed by P or by a descendant of P that was fetched before the
\* operation.
C37_SubtreeEvictedAfterEdit ==
    (EditSucceeded /\ edit.path \in Dirs) =>
        \A q \in DOMAIN cache : AtOrBelow(q, edit.path) => cache[q].epoch >= epoch

\* The step delivers the failure of the listing of the current path to
\* on_remote_load_failed.
LoadFailureDelivered ==
    /\ queue # <<>>
    /\ Head(queue).kind = "failed"
    /\ Head(queue).path = current_remote_path
    /\ queue' = Tail(queue)

\* C38: when the listing started by a navigation fails, the current remote
\* path and the entries of the flat view are, after the failure, those of the
\* last directory that was loaded.
C38_FailedNavigationKeepsView ==
    [][(LoadFailureDelivered /\ connected) =>
        /\ current_remote_path' = last_loaded.path
        /\ model_rows' = last_loaded.names]_vars

\* A running instance of the answer has the public address `hostname`.
MatchesRunning(instances, hostname) ==
    \E i \in 1..Len(instances) :
        IsRunning(instances[i]) /\ instances[i].public_ipaddr = hostname

\* C39: the configured port of a host is replaced only when a running
\* instance has the host's hostname as its public address; a host that
\* matches no running instance keeps its port, however many are running.
C39_PortMappedOnlyForMatchingInstance ==
    \A k \in 1..Len(trace) :
        (trace[k].op = "connect" /\ trace[k].port # ConfiguredPort)
            => (trace[k].cli_ok /\ MatchesRunning(trace[k].instances, trace[k].hostname))

\* C39 with the fallback of the code: the port is replaced only for a
\* matching running instance or when exactly one instance is running.
C39_PortMappedForMatchOrSingleInstance ==
    \A k \in 1..Len(trace) :
        (trace[k].op = "connect" /\ trace[k].port # ConfiguredPort)
            => /\ trace[k].cli_ok
               /\ \/ MatchesRunning(trace[k].instances, trace[k].hostname)
                  \/ Len(SelectSeq(trace[k].instances, IsRunning)) = 1

====
